---- MODULE Spec2Model ----
(***************************************************************************)
(* Transport/session state machine of rmcp-actix-web.                      *)
(*                                                                         *)
(* Bidirectional variant: StreamableHttpService (handle_get, handle_post,  *)
(* handle_delete in src/src/transport/streamable_http_server.rs) over the  *)
(* default session manager, whose store is a map keyed by session id.      *)
(* Each HTTP handler is a process that advances from one .await on the     *)
(* session manager to the next; the backend task spawned per session and   *)
(* the protocol engine behind it are separate processes.                   *)
(*                                                                         *)
(* Legacy variant: sse_handler, post_event_handler, SseServerTransport and *)
(* SseServer in src/src/transport/sse_server.rs: the sender map, the two   *)
(* channels of a session, the transport queue, the services spawned on the *)
(* transports, and cancellation.                                           *)
(***************************************************************************)
EXTENDS Integers, Sequences, FiniteSets, TLC

\* ------------------------------------------------------------------ bounds
\* HTTP requests issued in one run.
MaxRequests == 3
\* Envelopes the engine puts on one response stream.
MaxEnvelopes == 1
\* Concurrent HTTP handler invocations.
Handlers == {"h1", "h2"}

\* Session ids the server can allocate in one run (session_id() yields a fresh
\* id on every call), and an id no session ever had.
SessionIds == 1..MaxRequests
ForgedIds == {0}

VARIABLES
    stateful_mode,   \* AppData.stateful_mode
    sse_keep_alive,  \* AppData.sse_keep_alive is Some(_)
    sessions,        \* ids held by the session manager's store
    next_id,         \* the next id session_id() returns
    task,            \* per session: state of the task spawned in handle_post
    init,            \* per session: progress of initialize_session
    inbound,         \* per session: messages handed to the backend, in order
    pc,              \* per handler: position in its handler
    req,             \* per handler: the HTTP request being served
    resp,            \* per handler: the HTTP response returned
    sid,             \* per handler: the session the handler is bound to
    stream,          \* per handler: the stream the response body reads from
    emitted,         \* per handler: data frames written to the response body
    ended,           \* per handler: the response body has terminated
    eff,             \* per handler: what the request did so far
    nreq,            \* requests issued so far
    closed,          \* ids for which a DELETE returned 204
    known_ids,       \* session ids a response has carried to a client
    max_inflight,    \* HTTP requests the clients keep in flight at a time
    token_passthrough, \* built with feature "authorization-token-passthrough"
    on_request,      \* an on_request hook is configured on the service
    workload,        \* what the clients send and how much the engine emits
    seen,            \* per session: extension values its backend was handed
    txs,             \* ids held by the legacy transport's sender map
    legacy           \* the legacy server: transports, channels, cancellation

vars == <<stateful_mode, sse_keep_alive, sessions, next_id, task, init, inbound,
          pc, req, resp, sid, stream, emitted, ended, eff, nreq, closed,
          known_ids, max_inflight, token_passthrough, on_request, workload,
          seen, txs, legacy>>

config_vars == <<stateful_mode, sse_keep_alive, max_inflight, token_passthrough,
                 on_request, workload>>
handler_vars == <<pc, req, resp, sid, stream, emitted, ended, eff>>

\* ---------------------------------------------------------------- messages
\* ClientJsonRpcMessage as the transport sees it: a body that does not
\* deserialize, or one of the four variants; a Request is an initialize
\* request or any other request.
Bodies == {"malformed", "initialize", "call", "notification", "response", "error"}

IsRequest(b) == b \in {"initialize", "call"}
IsInitialize(b) == b = "initialize"

NoRequest ==
    [method |-> "NONE", accept |-> {}, ctype |-> "none", body |-> "none",
     sid |-> {}, last_event_id |-> FALSE, auth |-> {}, ext |-> {}]

NoResponse == [status |-> 0, session |-> {}, body |-> "none"]

\* The stream behind a response body: what it is, whether its sending side is
\* still there, the envelopes queued on it, how many were ever put on it, and
\* whether the body has carried a keep-alive frame; which of its envelopes
\* carry an event id.
NoStream == [kind |-> "none", open |-> FALSE, q |-> <<>>, sent |-> 0, pinged |-> FALSE,
             ids |-> {}]

\* What a request did and saw: sessions it created and removed, factory
\* calls, tasks spawned, messages enqueued, streams attached; whether its
\* session id named a stored session when it arrived and whether a DELETE had
\* already returned 204 for that id; whether the session was reachable when
\* the message was handed over; whether a lookup of the session found it when
\* the response was returned.
NoEffect == [created |-> {}, factory |-> 0, spawned |-> 0, enq |-> 0,
             streams |-> 0, removed |-> {}, known |-> FALSE, after_close |-> FALSE,
             reach |-> "none", found |-> FALSE, bag |-> {}, wire |-> <<>>]

\* The chunks of a response body.  A chunk is the text of one `yield`, as the
\* sequence of its lines; a line is a field name and a value, a comment line
\* has the field ":" and the blank line has neither.
Line(f, v) == [field |-> f, value |-> v]

BlankLine == Line("", "")

\* handle_get and handle_post on a session: `id: {id}\n` when the envelope
\* has an event id, then `data: {data}\n\n`, pushed into one string.
EventFrame(st, n) ==
    (IF n \in st.ids THEN <<Line("id", n)>> ELSE <<>>)
        \o <<Line("data", n), BlankLine>>

\* The stateless stream and the initialize response: `data: {data}\n\n`.
DataFrame(n) == <<Line("data", n), BlankLine>>

\* Mutation of MessageFrame: the legacy stream writes the frame of the
\* streamable transport.
MessageFrameNoEvent(n) == <<Line("data", n), BlankLine>>

\* sse_handler: `event: message\ndata: {json}\n\n`.
MessageFrame(n) == <<Line("event", "message"), Line("data", n), BlankLine>>

\* sse_handler: `event: endpoint\ndata: {post_path}?sessionId={id}\n\n`.
EndpointFrame(id) == <<Line("event", "endpoint"), Line("data", id), BlankLine>>

\* `:ping\n\n`, and `: ping\n\n` on the legacy stream.
KeepAliveFrame(kind) ==
    <<Line(":", IF kind = "legacy" THEN " ping" ELSE "ping"), BlankLine>>

\* The chunk the data branch yields for envelope n of stream st.
DataChunk(st, n) ==
    CASE st.kind = "legacy" -> MessageFrame(n)
      [] st.kind = "oneshot" -> DataFrame(n)
      [] OTHER -> EventFrame(st, n)

Response(status, body) == [status |-> status, session |-> {}, body |-> body]

\* Accept header values: both media types, only text/event-stream, only
\* application/json.
Accepts == {{"json", "sse"}, {"sse"}, {"json"}}

\* POST requests a client sends: a well-formed one with any message, and the
\* ones that fail one of the checks made before the message is looked at.
PostInputs ==
    {[accept |-> {"json", "sse"}, ctype |-> "json", body |-> b] : b \in Bodies}
    \cup {[accept |-> a, ctype |-> "json", body |-> "call"] : a \in Accepts}
    \cup {[accept |-> {"json", "sse"}, ctype |-> "other", body |-> "call"]}

\* Every combination of Accept, Content-Type and body.
AllPostInputs ==
    [accept : Accepts, ctype : {"json", "other"}, body : Bodies]

\* ------------------------------------------------------ header values
\* A header value is a sequence of lexemes; "0x80" stands for a byte that is
\* not visible ASCII, which makes HeaderValue::to_str fail.
LexLen(x) ==
    CASE x = "Bearer" -> 6
      [] x = "bearer" -> 6
      [] x = "Basic" -> 5
      [] x = " " -> 1
      [] x = "abc" -> 3
      [] x = "xyz" -> 3
      [] x = "rotated-token" -> 13
      [] x = "0x80" -> 1

RECURSIVE StrLen(_)
StrLen(s) == IF s = <<>> THEN 0 ELSE LexLen(Head(s)) + StrLen(Tail(s))

\* HeaderValue::to_str
IsText(s) == \A i \in 1..Len(s) : s[i] # "0x80"

\* auth_str.starts_with("Bearer ")
StartsWithBearerSpace(s) == Len(s) >= 2 /\ s[1] = "Bearer" /\ s[2] = " "

\* The Authorization header of a request: absent, or one value.
AuthHeaders ==
    {{}} \cup {{v} : v \in {<<"Bearer", " ", "abc">>,
                            <<"Bearer", " ", "rotated-token">>,
                            <<"Basic", " ", "xyz">>,
                            <<"bearer", " ", "abc">>,
                            <<"Bearer">>,
                            <<"Bearer", " ">>,
                            <<"Bearer", " ", " ">>,
                            <<"0x80">>}}

\* What a middleware can have put into the HTTP request's extensions.
HttpExtensions == {{}, {[key |-> "claims", val |-> <<"abc">>]}}

HttpExtensionItems == UNION HttpExtensions

\* mpsc::channel(64): the capacity of both channels of a legacy session.
ChannelCapacity == 64

\* What the clients of a run send and how much the engine emits per stream:
\* the POST inputs, Authorization headers and HTTP extensions in use, the
\* number of requests, the envelopes per stream, and the capacity the legacy
\* channels are built with.
DefaultWorkload ==
    [posts |-> PostInputs, auths |-> {{}}, exts |-> {{}},
     budget |-> MaxRequests, envelopes |-> MaxEnvelopes,
     capacity |-> ChannelCapacity, servers |-> {FALSE},
     event_ids |-> {TRUE}, pings |-> FALSE]

\* ------------------------------------------------------- header validation
\* handle_post: the Accept header must contain both media types.
PostAcceptOk(accept) == {"json", "sse"} \subseteq accept

\* handle_get: the Accept header must contain text/event-stream.
GetAcceptOk(accept) == "sse" \in accept

\* handle_post: the Content-Type header must start with application/json.
ContentTypeOk(ctype) == ctype = "json"

\* Mutation of PostPrecheck: the body is deserialized before the headers are
\* looked at.
PostPrecheckBodyFirst(r) ==
    IF r.body = "malformed" THEN 400
    ELSE IF ~ContentTypeOk(r.ctype) THEN 415
    ELSE IF ~PostAcceptOk(r.accept) THEN 406
    ELSE 0

\* handle_post, up to the deserialized message: the status of the first
\* failing check, 0 when the request passes all three.
PostPrecheck(r) ==
    IF ~PostAcceptOk(r.accept) THEN 406
    ELSE IF ~ContentTypeOk(r.ctype) THEN 415
    ELSE IF r.body = "malformed" THEN 400
    ELSE 0

\* ----------------------------------------------------------- session store
has_session(store, id) == id \in store

close_session(store, id) == store \ {id}

\* The inbound channels once session id is closed: its channel goes with it.
DropChannel(chans, id) ==
    [s \in DOMAIN chans |-> IF s = id THEN <<>> ELSE chans[s]]

create_session(store, id) == store \cup {id}

\* The streams of the handlers bound to session id once the session is closed:
\* the session worker goes and with it the sending side of every stream it
\* fed; what is already queued can still be read.
CloseStreams(streams, binding, id) ==
    [h \in DOMAIN streams |->
        IF binding[h] = {id} /\ streams[h].kind \in {"request", "standalone", "resume"}
        THEN [streams[h] EXCEPT !.open = FALSE]
        ELSE streams[h]]

\* The backend of session id can take messages: the task spawned for it has
\* not left serve_server / waiting.
BackendAlive(id) == id \in SessionIds /\ task[id] \in {"serving", "running"}

\* Session ids a client can put in a request: ids a response has carried (a
\* session id is an unguessable token), and a forged one.
ClientIds == known_ids \cup ForgedIds

TypeOK ==
    /\ stateful_mode \in BOOLEAN
    /\ sse_keep_alive \in BOOLEAN
    /\ sessions \subseteq SessionIds
    /\ next_id \in 1..(MaxRequests + 1)
    /\ task \in [SessionIds -> {"none", "serving", "running", "exited", "done",
                                "cleanup"}]
    /\ init \in [SessionIds -> {"none", "requested", "answered"}]
    /\ pc \in [Handlers -> {"idle", "post_checked", "get_service", "init_call",
                            "init_wait",
                            "get_checked", "streaming", "sse_sending",
                            "done"}]
    /\ nreq \in 0..MaxRequests
    /\ closed \subseteq (SessionIds \cup ForgedIds)
    /\ known_ids \subseteq SessionIds
    /\ max_inflight \in 1..Cardinality(Handlers)
    /\ token_passthrough \in BOOLEAN
    /\ on_request \in BOOLEAN
    /\ workload.posts \subseteq AllPostInputs
    /\ workload.auths \subseteq AuthHeaders
    /\ workload.exts \subseteq HttpExtensions
    /\ txs \subseteq SessionIds
    /\ legacy.state \in [SessionIds -> {"none", "queued", "serving", "quit",
                                        "dropped", "gone"}]
    /\ legacy.spawned \in [SessionIds -> 0..1]
    /\ legacy.ct \in BOOLEAN
    /\ legacy.own_server \in BOOLEAN

\* The legacy server before any connection.  Per session id: where its
\* SseServerTransport is (not built; in the transport queue; held by a running
\* service; closed by its service, removal from txs pending; dropped without
\* close; closed and removed), the client messages in its inbound channel,
\* the ones its service has read, the ones accepted with 202, and the
\* services spawned on it.  Per handler: the message its submission carries.  ct: SseServerConfig.ct is cancelled.  own_server:
\* the HTTP server was started by serve_with_config, not by the embedder.
NoLegacy(own) ==
    [state |-> [s \in SessionIds |-> "none"],
     inq |-> [s \in SessionIds |-> <<>>],
     delivered |-> [s \in SessionIds |-> <<>>],
     accepted |-> [s \in SessionIds |-> <<>>],
     spawned |-> [s \in SessionIds |-> 0],
     sending |-> [h \in Handlers |-> <<>>],
     ct |-> FALSE,
     own_server |-> own]

\* The state shared by every run right after the service is built: no
\* session, no request in progress.
Fresh ==
    /\ sessions = {}
    /\ next_id = 1
    /\ task = [s \in SessionIds |-> "none"]
    /\ init = [s \in SessionIds |-> "none"]
    /\ inbound = [s \in SessionIds |-> <<>>]
    /\ pc = [h \in Handlers |-> "idle"]
    /\ req = [h \in Handlers |-> NoRequest]
    /\ resp = [h \in Handlers |-> NoResponse]
    /\ sid = [h \in Handlers |-> {}]
    /\ stream = [h \in Handlers |-> NoStream]
    /\ emitted = [h \in Handlers |-> <<>>]
    /\ ended = [h \in Handlers |-> FALSE]
    /\ eff = [h \in Handlers |-> NoEffect]
    /\ nreq = 0
    /\ closed = {}
    /\ known_ids = {}
    /\ seen = [s \in SessionIds |-> {}]
    /\ txs = {}
    /\ legacy \in {NoLegacy(o) : o \in workload.servers}

Init ==
    /\ stateful_mode \in BOOLEAN
    /\ sse_keep_alive \in BOOLEAN
    /\ max_inflight = 1
    /\ token_passthrough = FALSE
    /\ on_request = FALSE
    /\ workload = DefaultWorkload
    /\ Fresh

\* ------------------------------------------------------------ handle_post
Upd(f, h, v) == [f EXCEPT ![h] = v]

\* A connection is free for a new request: the clients keep at most
\* max_inflight requests in flight.
CanBegin(h) ==
    /\ pc[h] = "idle"
    /\ nreq < workload.budget
    /\ Cardinality({g \in Handlers : pc[g] # "idle"}) < max_inflight
    /\ h = "h1" \/ pc["h1"] # "idle"

\* The handler returns `r` without a streaming body.
Reply(h, r) ==
    /\ pc' = Upd(pc, h, "done")
    /\ resp' = Upd(resp, h, r)

\* What the request knew when it arrived: whether its session id named a
\* stored session, and whether a DELETE had already returned 204 for it.
Arrival(s) ==
    [NoEffect EXCEPT !.known = (s # {} /\ s \subseteq sessions),
                     !.after_close = (s # {} /\ s \subseteq closed)]

\* The Authorization block of handle_post, the same in its three paths: the
\* header value is put into the message's extensions, as an
\* AuthorizationHeader holding the whole value, when it is text, starts with
\* "Bearer " and is longer than 7 bytes; every other arm of the match only
\* logs.  Built without the feature, the handler only logs.
ForwardAnyText(header) ==
    {[key |-> "AuthorizationHeader", val |-> v] : v \in {w \in header : IsText(w)}}

ForwardNothing(header) == {}

AuthorizationExtension(header) ==
    IF token_passthrough
    THEN {[key |-> "AuthorizationHeader", val |-> v] :
            v \in {w \in header : IsText(w) /\ StartsWithBearerSpace(w)
                                            /\ StrLen(w) > 7}}
    ELSE {}

\* The on_request hook: called with the HTTP request and the extensions of
\* the message, it copies what it finds in the HTTP request's extensions;
\* without a hook nothing is copied.
HookCopiesNothing(r) == {}

OnRequestHook(r) == IF on_request THEN r.ext ELSE {}

\* Mutation of RequestExtensions: what the session's backend was handed
\* before is handed to it again.
CachedExtensions(r) ==
    LET old == UNION {seen[i] : i \in r.sid \cap SessionIds}
    IN  IF old # {} THEN old
        ELSE AuthorizationExtension(r.auth) \cup OnRequestHook(r)

\* The extensions of the Request message handed to the backend.
RequestExtensions(r) == AuthorizationExtension(r.auth) \cup OnRequestHook(r)

\* Stateful mode, no session id: the message must be an initialize request;
\* 0 when it is, else the status of the rejection.
FirstContactAny(body) == 0

FirstContactStatus(body) ==
    IF IsRequest(body) /\ IsInitialize(body) THEN 0 ELSE 422

\* The Mcp-Session-Id header of the response to an initialize request.
SessionHeaderNone(id) == {}

SessionHeader(id) == {id}

\* Stateful mode, session id present: the status returned for the result of
\* has_session, 0 when the handler goes on to the message.
ExistingSessionUnchecked(found) == 0

ExistingSessionStatus(found) == IF found THEN 0 ELSE 401

\* The guard of the session store's lock is a temporary of the statement that
\* took it: at no position where a handler can be found does it still live.
StoreGuardAcrossFactory(p) == p = "get_service"

StoreGuardLive(p) == FALSE

\* The session store can be locked: no handler holds its lock.
StoreFree == \A g \in Handlers : ~StoreGuardLive(pc[g])

PostExisting(h, r) ==
    LET id == CHOOSE i \in r.sid : TRUE IN
    /\ StoreFree
    /\ eff' = Upd(eff, h, Arrival(r.sid))
    /\ IF ExistingSessionStatus(has_session(sessions, id)) = 0
       THEN /\ pc' = Upd(pc, h, "post_checked")
            /\ sid' = Upd(sid, h, {id})
            /\ UNCHANGED resp
       ELSE /\ Reply(h, Response(ExistingSessionStatus(has_session(sessions, id)), "text"))
            /\ UNCHANGED sid
    /\ UNCHANGED <<sessions, next_id, task, stream>>

\* Stateful mode, no session id: create_session, then the initialize check;
\* an initialize request goes on to the service factory.
PostNew(h, r) ==
    LET id == next_id
        e0 == [Arrival(r.sid) EXCEPT !.created = {id}]
        e1 == [e0 EXCEPT !.bag = RequestExtensions(r)]
    IN  /\ StoreFree
        /\ sessions' = create_session(sessions, id)
        /\ next_id' = next_id + 1
        /\ IF FirstContactStatus(r.body) # 0
           THEN /\ Reply(h, Response(FirstContactStatus(r.body), "text"))
                /\ eff' = Upd(eff, h, e0)
                /\ UNCHANGED <<task, sid>>
           ELSE /\ eff' = Upd(eff, h, e1)
                /\ pc' = Upd(pc, h, "get_service")
                /\ sid' = Upd(sid, h, {id})
                /\ UNCHANGED <<task, resp>>
        /\ UNCHANGED stream

\* The service factory runs and returns: the session's task is spawned on the
\* instance it built, or its error becomes a 500.
PostGetService(h) ==
    /\ pc[h] = "get_service"
    /\ LET id == CHOOSE i \in sid[h] : TRUE IN
       \E ok \in BOOLEAN :
         IF ok
         THEN /\ task' = [task EXCEPT ![id] = "serving"]
              /\ eff' = Upd(eff, h, [eff[h] EXCEPT !.factory = 1, !.spawned = 1])
              /\ pc' = Upd(pc, h, "init_call")
              /\ UNCHANGED resp
         ELSE /\ Reply(h, Response(500, "text"))
              /\ eff' = Upd(eff, h, [eff[h] EXCEPT !.factory = 1])
              /\ UNCHANGED task
    /\ UNCHANGED <<config_vars, legacy, seen, txs, sessions, next_id, init, inbound,
                   req, sid, stream, emitted, ended, nreq, closed, known_ids>>

\* Mutation of PostStateless: the stateless path registers a session.
PostStatelessWithSession(h, r) ==
    /\ sessions' = create_session(sessions, next_id)
    /\ next_id' = next_id + 1
    /\ eff' = Upd(eff, h, [Arrival(r.sid) EXCEPT !.created = {next_id}])
    /\ Reply(h, [status |-> 200, session |-> {next_id}, body |-> "stream"])
    /\ UNCHANGED <<task, sid, stream>>

\* Stateless mode: a Request gets a fresh service instance on a one-shot
\* transport and the response streams what that instance emits; any other
\* message is rejected.
PostStateless(h, r) ==
    /\ IF IsRequest(r.body)
       THEN \E ok \in BOOLEAN :
              IF ok
              THEN /\ eff' = Upd(eff, h, [Arrival(r.sid) EXCEPT !.factory = 1,
                                              !.spawned = 1, !.streams = 1,
                                              !.bag = RequestExtensions(r)])
                   /\ stream' = Upd(stream, h, [NoStream EXCEPT !.kind = "oneshot",
                                                                !.open = TRUE])
                   /\ pc' = Upd(pc, h, "streaming")
                   /\ resp' = Upd(resp, h, Response(200, "stream"))
              ELSE /\ eff' = Upd(eff, h, [Arrival(r.sid) EXCEPT !.factory = 1,
                                              !.bag = RequestExtensions(r)])
                   /\ Reply(h, Response(500, "text"))
                   /\ UNCHANGED stream
       ELSE /\ eff' = Upd(eff, h, Arrival(r.sid))
            /\ Reply(h, Response(422, "text"))
            /\ UNCHANGED stream
    /\ UNCHANGED <<sessions, next_id, task, sid>>

\* handle_post from its entry to its first suspension on the session manager.
PostBegin(h) ==
    /\ CanBegin(h)
    /\ \E i \in workload.posts, s \in {{}} \cup {{c} : c \in ClientIds},
          a \in workload.auths, x \in workload.exts :
         LET r == [method |-> "POST", accept |-> i.accept, ctype |-> i.ctype,
                   body |-> i.body, sid |-> s, last_event_id |-> FALSE,
                   auth |-> a, ext |-> x]
         IN  /\ req' = Upd(req, h, r)
             /\ nreq' = nreq + 1
             /\ IF PostPrecheck(r) # 0
                THEN /\ Reply(h, Response(PostPrecheck(r), "text"))
                     /\ eff' = Upd(eff, h, Arrival(s))
                     /\ UNCHANGED <<sessions, next_id, task, sid, stream>>
                ELSE IF stateful_mode
                THEN IF s # {} THEN PostExisting(h, r) ELSE PostNew(h, r)
                ELSE PostStateless(h, r)
    /\ UNCHANGED <<config_vars, legacy, seen, txs, init, inbound, emitted, ended, closed, known_ids>>

\* initialize_session: hand the initialize request to the session.
PostInitCall(h) ==
    /\ pc[h] = "init_call"
    /\ StoreFree
    /\ LET id == CHOOSE i \in sid[h] : TRUE IN
       IF has_session(sessions, id) /\ BackendAlive(id)
       THEN /\ init' = [init EXCEPT ![id] = "requested"]
            /\ seen' = [seen EXCEPT ![id] = @ \cup eff[h].bag]
            /\ pc' = Upd(pc, h, "init_wait")
            /\ UNCHANGED resp
       ELSE /\ Reply(h, Response(500, "text"))
            /\ UNCHANGED <<init, seen>>
    /\ UNCHANGED <<config_vars, legacy, txs, sessions, next_id, task, inbound, req, sid,
                   stream, emitted, ended, eff, nreq, closed, known_ids>>

\* Mutation of InitializeFails: the call waits for a response whatever
\* becomes of the backend.
InitializeNeverFails(id) == FALSE

\* initialize_session returns an error: the backend is gone and has left no
\* response; the sender the call waits on went with it.
InitializeFails(id) == init[id] # "answered" /\ ~BackendAlive(id)

\* Mutation of PostInitReturn: the initialize response is put on a stream that
\* the loop of the other responses feeds to the body.
PostInitReturnThroughLoop(h) ==
    /\ pc[h] = "init_wait"
    /\ LET id == CHOOSE i \in sid[h] : TRUE IN
       \/ /\ init[id] = "answered"
          /\ pc' = Upd(pc, h, "streaming")
          /\ resp' = Upd(resp, h, [status |-> 200, session |-> SessionHeader(id),
                                   body |-> "stream"])
          /\ stream' = Upd(stream, h, [NoStream EXCEPT !.kind = "request", !.q = <<1>>])
          /\ known_ids' = known_ids \cup SessionHeader(id)
          /\ eff' = Upd(eff, h, [eff[h] EXCEPT !.found = has_session(sessions, id)])
       \/ /\ InitializeFails(id)
          /\ Reply(h, Response(500, "text"))
          /\ UNCHANGED <<stream, known_ids, eff>>
    /\ UNCHANGED <<config_vars, legacy, seen, txs, sessions, next_id, task, init, inbound, req, sid,
                   emitted, ended, nreq, closed>>

\* initialize_session returns: the initialize response becomes a one-event
\* stream on a 200 that carries the session id; an error becomes a 500.
PostInitReturn(h) ==
    /\ pc[h] = "init_wait"
    /\ LET id == CHOOSE i \in sid[h] : TRUE IN
       \/ /\ init[id] = "answered"
          /\ Reply(h, [status |-> 200, session |-> SessionHeader(id), body |-> "stream"])
          /\ emitted' = Upd(emitted, h, <<1>>)
          /\ ended' = Upd(ended, h, TRUE)
          /\ known_ids' = known_ids \cup SessionHeader(id)
          /\ eff' = Upd(eff, h, [eff[h] EXCEPT !.found = has_session(sessions, id),
                                               !.wire = <<DataFrame(1)>>])
       \/ /\ InitializeFails(id)
          /\ Reply(h, Response(500, "text"))
          /\ UNCHANGED <<emitted, ended, known_ids, eff>>
    /\ UNCHANGED <<config_vars, legacy, seen, txs, sessions, next_id, task, init, inbound, req, sid,
                   stream, nreq, closed>>

\* A session-manager call that reaches the session's worker succeeds when the
\* store holds the session and its backend is still there; it fails otherwise.
SessionReachable(id) == has_session(sessions, id) /\ BackendAlive(id)

OpenStream(kind) == [NoStream EXCEPT !.kind = kind, !.open = TRUE]

\* How the message of a POST to an existing session is handed over: a Request
\* through create_stream, every other variant through accept_message.
DispatchAllStream(body) == "create_stream"

Dispatch(body) ==
    IF IsRequest(body) THEN "create_stream" ELSE "accept_message"

\* Mutation of MessageExtensions: the Authorization block runs for every
\* kind of message.
MessageExtensionsAnyKind(r) == RequestExtensions(r)

\* What handle_post adds to the extensions of the message of a POST to an
\* existing session: the Authorization block and the hook are in the Request
\* arm of the match; the other arm passes the message on as deserialized.
MessageExtensions(r) == IF IsRequest(r.body) THEN RequestExtensions(r) ELSE {}

\* Stateful mode, session id present, after has_session: the match on the
\* message kind.
PostDispatch(h) ==
    /\ pc[h] = "post_checked"
    /\ StoreFree
    /\ LET id == CHOOSE i \in sid[h] : TRUE
           body == req[h].body
       IN  IF ~SessionReachable(id)
           THEN /\ Reply(h, Response(500, "text"))
                /\ eff' = Upd(eff, h, [eff[h] EXCEPT !.reach = "no",
                                                     !.bag = MessageExtensions(req[h])])
                /\ UNCHANGED <<inbound, stream, seen>>
           ELSE /\ inbound' = [inbound EXCEPT ![id] = Append(@, body)]
                /\ IF Dispatch(body) = "create_stream"
                   THEN /\ stream' = Upd(stream, h, OpenStream("request"))
                        /\ pc' = Upd(pc, h, "streaming")
                        /\ resp' = Upd(resp, h, Response(200, "stream"))
                        /\ seen' = [seen EXCEPT ![id] = @ \cup RequestExtensions(req[h])]
                        /\ eff' = Upd(eff, h, [eff[h] EXCEPT !.enq = @ + 1,
                                          !.streams = @ + 1, !.reach = "yes",
                                          !.bag = RequestExtensions(req[h])])
                   ELSE /\ Reply(h, Response(202, "none"))
                        /\ seen' = [seen EXCEPT ![id] = @ \cup MessageExtensions(req[h])]
                        /\ eff' = Upd(eff, h, [eff[h] EXCEPT !.enq = @ + 1,
                                                             !.reach = "yes",
                                                             !.bag = MessageExtensions(req[h])])
                        /\ UNCHANGED stream
    /\ UNCHANGED <<config_vars, legacy, txs, sessions, next_id, task, init, req, sid,
                   emitted, ended, nreq, closed, known_ids>>

\* ------------------------------------------------------------- handle_get
\* Mutation of GetPrecheck: the session id is looked at before Accept.
GetPrecheckSessionFirst(r) ==
    IF r.sid = {} THEN 401
    ELSE IF ~(\E i \in r.sid : has_session(sessions, i)) THEN 401
    ELSE IF ~GetAcceptOk(r.accept) THEN 406
    ELSE 0

\* handle_get up to has_session: the status of the first failing check, 0
\* when the request goes on to attach a stream.
GetPrecheck(r) ==
    IF ~GetAcceptOk(r.accept) THEN 406
    ELSE IF r.sid = {} THEN 401
    ELSE IF ~(\E i \in r.sid : has_session(sessions, i)) THEN 401
    ELSE 0

GetBegin(h) ==
    /\ CanBegin(h)
    /\ \E accept \in Accepts, lei \in BOOLEAN,
          s \in {{}} \cup {{i} : i \in ClientIds} :
         LET r == [method |-> "GET", accept |-> accept, ctype |-> "none",
                   body |-> "none", sid |-> s, last_event_id |-> lei,
                   auth |-> {}, ext |-> {}]
         IN  /\ req' = Upd(req, h, r)
             /\ nreq' = nreq + 1
             /\ eff' = Upd(eff, h, Arrival(s))
             /\ IF GetPrecheck(r) # 0
                THEN /\ Reply(h, Response(GetPrecheck(r), "text"))
                     /\ UNCHANGED sid
                ELSE /\ pc' = Upd(pc, h, "get_checked")
                     /\ sid' = Upd(sid, h, s)
                     /\ UNCHANGED resp
    /\ UNCHANGED <<config_vars, legacy, seen, txs, sessions, next_id, task, init, inbound, stream,
                   emitted, ended, closed, known_ids>>

\* Mutation of AttachCall: every GET attaches a fresh standalone stream.
AttachAlwaysStandalone(last_event_id) == "standalone"

\* The session-manager call of handle_get: resume from the Last-Event-ID
\* header when the request has one, create_standalone_stream otherwise.
AttachCall(last_event_id) == IF last_event_id THEN "resume" ELSE "standalone"

\* resume (with a last-event id) or create_standalone_stream (without).
GetAttach(h) ==
    /\ pc[h] = "get_checked"
    /\ StoreFree
    /\ LET id == CHOOSE i \in sid[h] : TRUE IN
       IF ~SessionReachable(id)
       THEN /\ Reply(h, Response(500, "text"))
            /\ eff' = Upd(eff, h, [eff[h] EXCEPT !.reach = "no"])
            /\ UNCHANGED stream
       ELSE /\ stream' = Upd(stream, h,
                   OpenStream(AttachCall(req[h].last_event_id)))
            /\ pc' = Upd(pc, h, "streaming")
            /\ resp' = Upd(resp, h, Response(200, "stream"))
            /\ eff' = Upd(eff, h, [eff[h] EXCEPT !.streams = @ + 1, !.reach = "yes"])
    /\ UNCHANGED <<config_vars, legacy, seen, txs, sessions, next_id, task, init, inbound, req, sid,
                   emitted, ended, nreq, closed, known_ids>>

\* ---------------------------------------------------------- handle_delete
\* The status handle_delete returns once close_session has returned: 204 when
\* it returned Ok, 500 when it returned an error.
DeleteStatus(ok) == IF ok THEN 204 ELSE 500

\* Mutation of CloseCanFail: closing a session the store no longer holds is
\* an error too.
CloseFailsWhenAbsent(id) == ~BackendAlive(id)

\* close_session returns an error: the store held the session and its worker
\* is gone, so the close sent to the worker fails; a session the store does
\* not hold is closed with Ok.
CloseCanFail(id) == has_session(sessions, id) /\ ~BackendAlive(id)

\* handle_delete: the session id header is required; close_session is called
\* for whatever id it holds.  Closing a stored session whose worker is gone
\* can report an error after the entry has been removed.
DeleteSession(h) ==
    /\ CanBegin(h)
    /\ StoreFree
    /\ \E s \in {{}} \cup {{i} : i \in ClientIds} :
         LET r == [method |-> "DELETE", accept |-> {}, ctype |-> "none",
                   body |-> "none", sid |-> s, last_event_id |-> FALSE,
                   auth |-> {}, ext |-> {}]
         IN  /\ req' = Upd(req, h, r)
             /\ nreq' = nreq + 1
             /\ IF s = {}
                THEN /\ Reply(h, Response(401, "text"))
                     /\ eff' = Upd(eff, h, Arrival(s))
                     /\ UNCHANGED <<sessions, closed, inbound, stream>>
                ELSE LET id == CHOOSE i \in s : TRUE IN
                     \E ok \in BOOLEAN :
                       /\ ok \/ CloseCanFail(id)
                       /\ sessions' = close_session(sessions, id)
                       /\ inbound' = DropChannel(inbound, id)
                       /\ stream' = CloseStreams(stream, sid, id)
                       /\ eff' = Upd(eff, h, [Arrival(s) EXCEPT
                                                !.removed = s \cap sessions])
                       /\ Reply(h, Response(DeleteStatus(ok), "none"))
                       /\ closed' = IF ok THEN closed \cup s ELSE closed
    /\ UNCHANGED <<config_vars, legacy, seen, txs, next_id, task, init, sid,
                   emitted, ended, known_ids>>

\* ------------------------------------------- the task spawned per session
\* The engine answers the initialize request handed over by
\* initialize_session.
EngineInitialize(s) ==
    /\ task[s] = "serving"
    /\ init[s] = "requested"
    /\ init' = [init EXCEPT ![s] = "answered"]
    /\ UNCHANGED <<config_vars, legacy, seen, txs, sessions, next_id, task, inbound, handler_vars,
                   nreq, closed, known_ids>>

\* serve_server returns Ok: the task goes on to service.waiting().
EngineServe(s) ==
    /\ task[s] = "serving"
    /\ init[s] = "answered"
    /\ task' = [task EXCEPT ![s] = "running"]
    /\ UNCHANGED <<config_vars, legacy, seen, txs, sessions, next_id, init, inbound, handler_vars,
                   nreq, closed, known_ids>>

\* serve_server returns an error, or the running service finishes.
EngineExit(s) ==
    /\ task[s] \in {"serving", "running"}
    /\ task' = [task EXCEPT ![s] = "exited"]
    /\ UNCHANGED <<config_vars, legacy, seen, txs, sessions, next_id, init, inbound, handler_vars,
                   nreq, closed, known_ids>>

\* Mutation of TaskCloseSession: the task ends without close_session.
TaskEndsWithoutClose(s) ==
    /\ task[s] = "exited"
    /\ task' = [task EXCEPT ![s] = "done"]
    /\ UNCHANGED <<config_vars, legacy, seen, txs, sessions, next_id, init, inbound, handler_vars,
                   nreq, closed, known_ids>>

\* The last statement of the spawned task: close_session on its own id.
TaskCloseSession(s) ==
    /\ task[s] = "exited"
    /\ StoreFree
    /\ sessions' = close_session(sessions, s)
    /\ inbound' = DropChannel(inbound, s)
    /\ stream' = CloseStreams(stream, sid, s)
    /\ task' = [task EXCEPT ![s] = "done"]
    /\ UNCHANGED <<config_vars, legacy, seen, txs, next_id, init, pc, req, resp, sid,
                   emitted, ended, eff, nreq, closed, known_ids>>

\* --------------------------------------------------------- response bodies
\* Mutation of SinkReady: the sink takes a message whatever the channel holds.
SinkAlwaysReady(h) == \E s \in sid[h] : legacy.state[s] = "serving"

\* Sink for SseServerTransport, poll_ready: the service holding the transport
\* of the session can send once the outbound channel has a free slot.
SinkReady(h) ==
    /\ \E s \in sid[h] : legacy.state[s] = "serving"
    /\ Len(stream[h].q) < workload.capacity

\* The streams of ServerSseMessage, whose items have an event_id field; the
\* one-shot receiver and the legacy channel carry bare messages.
HasEventIds(kind) == kind \in {"request", "standalone", "resume"}

\* The engine puts one more envelope on the stream a response reads from.
EngineEmit(h) ==
    /\ pc[h] = "streaming"
    /\ stream[h].open
    /\ stream[h].sent < workload.envelopes
    /\ stream[h].kind = "legacy" => SinkReady(h)
    /\ \E e \in workload.event_ids :
         stream' = Upd(stream, h,
                       [stream[h] EXCEPT !.q = Append(@, stream[h].sent + 1),
                                         !.sent = @ + 1,
                                         !.ids = IF e /\ HasEventIds(stream[h].kind)
                                                 THEN @ \cup {stream[h].sent + 1}
                                                 ELSE @])
    /\ UNCHANGED <<config_vars, legacy, seen, txs, sessions, next_id, task, init, inbound, pc, req,
                   resp, sid, emitted, ended, eff, nreq, closed, known_ids>>

\* The sending side of the stream is dropped: the stream ends after what is
\* already queued.  The legacy stream's channel keeps a sender in the cleanup
\* task of sse_handler, so it does not end while the response body lives.
EngineCloseStream(h) ==
    /\ pc[h] = "streaming"
    /\ stream[h].open
    /\ stream[h].kind # "legacy"
    /\ stream' = Upd(stream, h, [stream[h] EXCEPT !.open = FALSE])
    /\ UNCHANGED <<config_vars, legacy, seen, txs, sessions, next_id, task, init, inbound, pc, req,
                   resp, sid, emitted, ended, eff, nreq, closed, known_ids>>

\* tokio::select! over `Some(msg) = stream.next()` and the keep-alive future,
\* with `else => break`.  A branch whose future completes with a value that
\* does not match its pattern is disabled; `else` runs when every branch is
\* disabled.  The keep-alive branch has the pattern `_`, which matches every
\* value, and without a keep-alive interval its future is pending().
DataBranchDisabled(st) == st.q = <<>> /\ ~st.open

TimerBranchDisabled(keep_alive) == FALSE

\* Mutation of SelectBranches: the timer is polled first and wins.
SelectTimerFirst(st, keep_alive) ==
    IF keep_alive THEN {"ping"}
    ELSE IF st.q # <<>> THEN {"data"} ELSE {}

SelectBranches(st, keep_alive) ==
    (IF st.q # <<>> THEN {"data"} ELSE {})
    \cup (IF keep_alive THEN {"ping"} ELSE {})
    \cup (IF DataBranchDisabled(st) /\ TimerBranchDisabled(keep_alive)
          THEN {"break"} ELSE {})

\* The keep-alive of a response body: the service's sse_keep_alive, and for
\* the legacy stream its ping interval, which is always set.
KeepAlive(h) == stream[h].kind = "legacy" \/ sse_keep_alive

\* The frame the data branch writes: the envelope stream.next() yields.
NextFrameLast(q) == q[Len(q)]

NextFrame(q) == Head(q)

\* The keep-alive chunks a run keeps in its record of a body: none, or, with
\* workload.pings, the first of every run of keep-alives.
RecordsPing(wire) ==
    /\ workload.pings
    /\ wire = <<>> \/ wire[Len(wire)][1].field # ":"

\* One turn of the loop that feeds the response body, by the branch taken.
StreamBranch(h, b) ==
    /\ pc[h] = "streaming"
    /\ ~ended[h]
    /\ b \in SelectBranches(stream[h], KeepAlive(h))
    /\ CASE b = "data" ->
                /\ emitted' = Upd(emitted, h, Append(emitted[h], NextFrame(stream[h].q)))
                /\ stream' = Upd(stream, h, [stream[h] EXCEPT !.q = Tail(@)])
                /\ eff' = Upd(eff, h, [eff[h] EXCEPT !.wire =
                              Append(@, DataChunk(stream[h], NextFrame(stream[h].q)))])
                /\ UNCHANGED ended
           [] b = "ping" ->
                /\ stream' = Upd(stream, h, [stream[h] EXCEPT !.pinged = TRUE])
                /\ eff' = Upd(eff, h, [eff[h] EXCEPT !.wire =
                              IF RecordsPing(@) THEN Append(@, KeepAliveFrame(stream[h].kind))
                              ELSE @])
                /\ UNCHANGED <<emitted, ended>>
           [] b = "break" ->
                /\ ended' = Upd(ended, h, TRUE)
                /\ UNCHANGED <<stream, emitted, eff>>
    /\ UNCHANGED <<config_vars, legacy, seen, txs, sessions, next_id, task, init, inbound,
                   pc, req, resp, sid, nreq, closed, known_ids>>

StreamStep(h) == \E b \in {"data", "ping", "break"} : StreamBranch(h, b)

\* ------------------------------------------------- legacy sse_handler
\* serve_with_config spawns a task that stops the HTTP server once ct is
\* cancelled; a server the embedder runs is not touched by ct.
ServerStopped == legacy.own_server /\ legacy.ct

\* Mutation of TxsReadGuardLive: the submission handler keeps the read guard
\* it looked the sender up with until its send has completed.
TxsGuardAcrossSend(p) == p = "sse_sending"

\* post_event_handler looks the sender up inside a block and leaves the block
\* with a clone of it: the read guard of txs is dropped before the send, at
\* no position where a handler waits does it still live.
TxsReadGuardLive(p) == FALSE

\* txs can be locked for writing: no handler holds a read guard.
TxsWritable == \A g \in Handlers : ~TxsReadGuardLive(pc[g])

\* sse_handler: a fresh session id, its sender put into txs, the transport
\* handed to the server; when that fails the handler returns 500, otherwise
\* the cleanup task is spawned and the response streams the endpoint event
\* (frame 0) and then the messages of the session.
SseConnect(h) ==
    /\ CanBegin(h)
    /\ ~ServerStopped
    /\ TxsWritable
    /\ LET id == next_id
           r == [method |-> "SSE", accept |-> {"sse"}, ctype |-> "none",
                 body |-> "none", sid |-> {}, last_event_id |-> FALSE,
                 auth |-> {}, ext |-> {}]
       IN  /\ req' = Upd(req, h, r)
           /\ nreq' = nreq + 1
           /\ next_id' = next_id + 1
           /\ txs' = txs \cup {id}
           /\ \E ok \in BOOLEAN :
                IF ok
                THEN /\ task' = [task EXCEPT ![id] = "cleanup"]
                     /\ legacy' = [legacy EXCEPT !.state[id] = "queued"]
                     /\ known_ids' = known_ids \cup {id}
                     /\ sid' = Upd(sid, h, {id})
                     /\ stream' = Upd(stream, h, OpenStream("legacy"))
                     /\ emitted' = Upd(emitted, h, <<0>>)
                     /\ pc' = Upd(pc, h, "streaming")
                     /\ resp' = Upd(resp, h, Response(200, "stream"))
                     /\ eff' = Upd(eff, h, [NoEffect EXCEPT !.created = {id},
                                                           !.streams = 1,
                                                           !.wire = <<EndpointFrame(id)>>])
                ELSE /\ Reply(h, Response(500, "text"))
                     /\ eff' = Upd(eff, h, [NoEffect EXCEPT !.created = {id}])
                     /\ UNCHANGED <<task, sid, stream, emitted, legacy, known_ids>>
    /\ UNCHANGED <<config_vars, seen, sessions, init, inbound, ended, closed>>

\* Mutation of SseCleanup: the cleanup task ends without touching txs.
SseCleanupKeepsEntry(s) ==
    /\ task[s] = "cleanup"
    /\ \A h \in Handlers : ~(pc[h] = "streaming" /\ sid[h] = {s})
    /\ task' = [task EXCEPT ![s] = "done"]
    /\ UNCHANGED <<config_vars, legacy, seen, txs, sessions, next_id, init, inbound,
                   handler_vars, nreq, closed, known_ids>>

\* The cleanup task of sse_handler: once the receiving side of the session's
\* outbound channel is gone, it removes the session's sender from txs.
SseCleanup(s) ==
    /\ task[s] = "cleanup"
    /\ TxsWritable
    /\ \A h \in Handlers : ~(pc[h] = "streaming" /\ sid[h] = {s})
    /\ txs' = txs \ {s}
    /\ task' = [task EXCEPT ![s] = "done"]
    /\ UNCHANGED <<config_vars, legacy, seen, sessions, next_id, init, inbound,
                   handler_vars, nreq, closed, known_ids>>

\* ------------------------------------------- legacy post_event_handler
\* Bodies of a legacy submission: one the Json extractor rejects, and a
\* message it accepts.
SseBodies == {"malformed", "call"}

\* The receiving side of the session's inbound channel exists: it is a field
\* of the SseServerTransport, which is in the transport queue or held by the
\* service reading from it.
InboundAlive(s) == s \in SessionIds /\ legacy.state[s] \in {"queued", "serving"}

\* Mutation of SsePostStatus: a failed send is not looked at.
SsePostStatusIgnoringSend(found, alive) == IF ~found THEN 404 ELSE 202

\* post_event_handler: 404 when txs has no sender for the id, 410 when
\* tx.send fails because the receiver is gone, 202 once the message is sent.
SsePostStatus(found, alive) ==
    IF ~found THEN 404 ELSE IF ~alive THEN 410 ELSE 202

\* tx.send(message) completing: the message is at the back of the channel.
Enqueue(lg, s, m) ==
    [lg EXCEPT !.inq[s] = Append(@, m), !.accepted[s] = Append(@, m)]

\* post_event_handler up to its first suspension: the sender is looked up
\* under the read lock and cloned, then tx.send(...).await either completes,
\* fails, or suspends on a full channel.  The Authorization header is not
\* read.
SsePost(h) ==
    /\ CanBegin(h)
    /\ ~ServerStopped
    /\ \E c \in ClientIds, b \in SseBodies, a \in workload.auths :
         LET r == [method |-> "SSE_POST", accept |-> {}, ctype |-> "json",
                   body |-> b, sid |-> {c}, last_event_id |-> FALSE,
                   auth |-> a, ext |-> {}]
             m == <<b, nreq + 1>>
             found == c \in txs
             st == SsePostStatus(found, InboundAlive(c))
             sent == IF ~found THEN "none"
                     ELSE IF InboundAlive(c) THEN "yes" ELSE "no"
         IN  /\ req' = Upd(req, h, r)
             /\ nreq' = nreq + 1
             /\ IF b = "malformed"
                THEN /\ Reply(h, Response(400, "text"))
                     /\ eff' = Upd(eff, h, [NoEffect EXCEPT !.known = found])
                     /\ UNCHANGED <<legacy, sid>>
                ELSE IF st # 202
                THEN /\ Reply(h, Response(st, "text"))
                     /\ eff' = Upd(eff, h, [NoEffect EXCEPT !.known = found,
                                                           !.reach = sent])
                     /\ legacy' = [legacy EXCEPT !.sending[h] = <<m>>]
                     /\ UNCHANGED sid
                ELSE IF Len(legacy.inq[c]) < workload.capacity
                THEN /\ Reply(h, Response(202, "none"))
                     /\ eff' = Upd(eff, h, [NoEffect EXCEPT !.known = found,
                                               !.reach = sent, !.enq = 1])
                     /\ legacy' = [Enqueue(legacy, c, m) EXCEPT !.sending[h] = <<m>>]
                     /\ sid' = Upd(sid, h, {c})
                ELSE /\ pc' = Upd(pc, h, "sse_sending")
                     /\ eff' = Upd(eff, h, [NoEffect EXCEPT !.known = found])
                     /\ legacy' = [legacy EXCEPT !.sending[h] = <<m>>]
                     /\ sid' = Upd(sid, h, {c})
                     /\ UNCHANGED resp
    /\ UNCHANGED <<config_vars, seen, txs, sessions, next_id, task, init, inbound,
                   stream, emitted, ended, closed, known_ids>>

\* The suspended tx.send(...).await completes: a slot became free, or the
\* receiver was dropped.
SsePostResume(h) ==
    /\ pc[h] = "sse_sending"
    /\ \E c \in sid[h] :
         LET m == legacy.sending[h][1]
         IN  IF InboundAlive(c)
             THEN /\ Len(legacy.inq[c]) < workload.capacity
                  /\ Reply(h, Response(202, "none"))
                  /\ eff' = Upd(eff, h, [eff[h] EXCEPT !.reach = "yes", !.enq = 1])
                  /\ legacy' = Enqueue(legacy, c, m)
             ELSE /\ Reply(h, Response(SsePostStatus(TRUE, FALSE), "text"))
                  /\ eff' = Upd(eff, h, [eff[h] EXCEPT !.reach = "no"])
                  /\ UNCHANGED legacy
    /\ UNCHANGED <<config_vars, seen, txs, sessions, next_id, task, init, inbound,
                   req, sid, stream, emitted, ended, nreq, closed, known_ids>>

\* ------------------------------------------------ legacy backend services
\* The loop of with_service / with_service_directly: the next transport is
\* taken from the queue and a service is spawned on it under a child of ct.
SseAccept(s) ==
    /\ legacy.state[s] = "queued"
    /\ legacy' = [legacy EXCEPT !.state[s] = "serving", !.spawned[s] = @ + 1]
    /\ UNCHANGED <<config_vars, seen, txs, sessions, next_id, task, init, inbound,
                   handler_vars, nreq, closed, known_ids>>

\* Mutation of InboundNext: the newest message is read first.
InboundNewest(q) == q[Len(q)]

\* Stream for SseServerTransport: the message poll_next yields.
InboundNext(q) == Head(q)

\* The service reads the next client message from its transport.
SseDeliver(s) ==
    /\ legacy.state[s] = "serving"
    /\ legacy.inq[s] # <<>>
    /\ legacy' = [legacy EXCEPT !.delivered[s] = Append(@, InboundNext(legacy.inq[s])),
                                !.inq[s] = Tail(@)]
    /\ UNCHANGED <<config_vars, seen, txs, sessions, next_id, task, init, inbound,
                   handler_vars, nreq, closed, known_ids>>

\* Every sender of the session's inbound channel is gone and the channel is
\* drained: the transport's stream yields None.
InputEnded(s) ==
    /\ s \notin txs
    /\ \A h \in Handlers : ~(pc[h] = "sse_sending" /\ sid[h] = {s})
    /\ legacy.inq[s] = <<>>

\* The service leaves its loop, because its token is cancelled or its input
\* ended, and closes the transport; what is left in the inbound channel goes
\* with the receiver.
SseServiceEnds(s) ==
    /\ legacy.state[s] = "serving"
    /\ legacy.ct \/ InputEnded(s)
    /\ legacy' = [legacy EXCEPT !.state[s] = "quit", !.inq[s] = <<>>]
    /\ UNCHANGED <<config_vars, seen, txs, sessions, next_id, task, init, inbound,
                   handler_vars, nreq, closed, known_ids>>

\* serve_with_ct returns an error: the spawned task ends and the transport is
\* dropped.
SseServiceFails(s) ==
    /\ legacy.state[s] = "serving"
    /\ legacy' = [legacy EXCEPT !.state[s] = "dropped", !.inq[s] = <<>>]
    /\ UNCHANGED <<config_vars, seen, txs, sessions, next_id, task, init, inbound,
                   handler_vars, nreq, closed, known_ids>>

\* Sink for SseServerTransport, poll_close: the task it spawns removes the
\* session's sender from tx_store.
SseRemoveOnClose(s) ==
    /\ legacy.state[s] = "quit"
    /\ TxsWritable
    /\ txs' = txs \ {s}
    /\ legacy' = [legacy EXCEPT !.state[s] = "gone"]
    /\ UNCHANGED <<config_vars, seen, sessions, next_id, task, init, inbound,
                   handler_vars, nreq, closed, known_ids>>

\* SseServer::cancel
CancelServer ==
    /\ ~legacy.ct
    /\ legacy' = [legacy EXCEPT !.ct = TRUE]
    /\ UNCHANGED <<config_vars, seen, txs, sessions, next_id, task, init, inbound,
                   handler_vars, nreq, closed, known_ids>>

\* server_handle.stop(true) in the task spawned by serve_with_config: the
\* server takes no new connection and closes the ones still open when the
\* shutdown timeout passes.
ServerCloseConnection(h) ==
    /\ ServerStopped
    /\ pc[h] # "idle"
    /\ pc' = Upd(pc, h, "idle")
    /\ req' = Upd(req, h, NoRequest)
    /\ resp' = Upd(resp, h, NoResponse)
    /\ sid' = Upd(sid, h, {})
    /\ stream' = Upd(stream, h, NoStream)
    /\ emitted' = Upd(emitted, h, <<>>)
    /\ ended' = Upd(ended, h, FALSE)
    /\ eff' = Upd(eff, h, NoEffect)
    /\ legacy' = [legacy EXCEPT !.sending[h] = <<>>]
    /\ UNCHANGED <<config_vars, seen, txs, sessions, next_id, task, init, inbound,
                   nreq, closed, known_ids>>

\* The client has read the response, or drops the connection.
ClientDone(h) ==
    /\ pc[h] \in {"done", "streaming"}
    /\ pc' = Upd(pc, h, "idle")
    /\ req' = Upd(req, h, NoRequest)
    /\ resp' = Upd(resp, h, NoResponse)
    /\ sid' = Upd(sid, h, {})
    /\ stream' = Upd(stream, h, NoStream)
    /\ emitted' = Upd(emitted, h, <<>>)
    /\ ended' = Upd(ended, h, FALSE)
    /\ eff' = Upd(eff, h, NoEffect)
    /\ legacy' = [legacy EXCEPT !.sending[h] = <<>>]
    /\ UNCHANGED <<config_vars, seen, txs, sessions, next_id, task, init, inbound, nreq, closed, known_ids>>

\* ----------------------------------------------------------- specification
Next ==
    \/ \E h \in Handlers : PostBegin(h)
    \/ \E h \in Handlers : PostGetService(h)
    \/ \E h \in Handlers : PostInitCall(h)
    \/ \E h \in Handlers : PostInitReturn(h)
    \/ \E h \in Handlers : PostDispatch(h)
    \/ \E h \in Handlers : GetBegin(h)
    \/ \E h \in Handlers : GetAttach(h)
    \/ \E h \in Handlers : DeleteSession(h)
    \/ \E h \in Handlers : StreamStep(h)
    \/ \E h \in Handlers : EngineEmit(h)
    \/ \E h \in Handlers : EngineCloseStream(h)
    \/ \E h \in Handlers : ClientDone(h)
    \/ \E s \in SessionIds : EngineInitialize(s)
    \/ \E s \in SessionIds : EngineServe(s)
    \/ \E s \in SessionIds : EngineExit(s)
    \/ \E s \in SessionIds : TaskCloseSession(s)

Spec == Init /\ [][Next]_vars

\* What the runtime guarantees: a spawned task and a handler that can take
\* their next step take it.  Nothing is assumed of the clients or the engine.
Fairness ==
    /\ \A s \in SessionIds : WF_vars(TaskCloseSession(s))
    /\ \A h \in Handlers :
         /\ WF_vars(PostGetService(h))
         /\ WF_vars(PostInitCall(h))
         /\ WF_vars(PostInitReturn(h))
         /\ WF_vars(PostDispatch(h))
         /\ WF_vars(GetAttach(h))
         /\ WF_vars(StreamStep(h))

FairSpec == Spec /\ Fairness

\* Stateless service with two requests in flight at a time.
StatelessInit ==
    /\ stateful_mode = FALSE
    /\ sse_keep_alive \in BOOLEAN
    /\ max_inflight = 2
    /\ token_passthrough = FALSE
    /\ on_request = FALSE
    /\ workload = DefaultWorkload
    /\ Fresh

StatelessNext ==
    \/ \E h \in Handlers : PostBegin(h)
    \/ \E h \in Handlers : GetBegin(h)
    \/ \E h \in Handlers : DeleteSession(h)
    \/ \E h \in Handlers : StreamStep(h)
    \/ \E h \in Handlers : EngineEmit(h)
    \/ \E h \in Handlers : EngineCloseStream(h)
    \/ \E h \in Handlers : ClientDone(h)

StatelessSpec == StatelessInit /\ [][StatelessNext]_vars

\* Requests with every combination of Accept, Content-Type and body.
ValidationWorkload ==
    [posts |-> AllPostInputs, auths |-> {{}}, exts |-> {{}},
     budget |-> MaxRequests - 1, envelopes |-> MaxEnvelopes,
     capacity |-> ChannelCapacity, servers |-> {FALSE},
     event_ids |-> {TRUE}, pings |-> FALSE]

ValidationInit ==
    /\ stateful_mode \in BOOLEAN
    /\ sse_keep_alive = FALSE
    /\ max_inflight = 1
    /\ token_passthrough = FALSE
    /\ on_request = FALSE
    /\ workload = ValidationWorkload
    /\ Fresh

ValidationSpec == ValidationInit /\ [][Next]_vars

\* Requests that pass validation and carry a Request message.
RequestPosts ==
    {[accept |-> {"json", "sse"}, ctype |-> "json", body |-> b] :
       b \in {"initialize", "call"}}

\* Requests with every kind of Authorization header, on a service built with
\* or without the passthrough feature.
AuthWorkload ==
    [posts |-> RequestPosts, auths |-> AuthHeaders, exts |-> {{}},
     budget |-> MaxRequests - 1, envelopes |-> MaxEnvelopes,
     capacity |-> ChannelCapacity, servers |-> {FALSE},
     event_ids |-> {TRUE}, pings |-> FALSE]

AuthInit ==
    /\ stateful_mode \in BOOLEAN
    /\ sse_keep_alive = FALSE
    /\ max_inflight = 1
    /\ token_passthrough \in BOOLEAN
    /\ on_request = FALSE
    /\ workload = AuthWorkload
    /\ Fresh

AuthSpec == AuthInit /\ [][Next]_vars

\* Requests whose HTTP extensions a middleware has or has not filled, on a
\* service with or without an on_request hook.
HookWorkload ==
    [posts |-> RequestPosts, auths |-> {{}, {<<"Bearer", " ", "abc">>}},
     exts |-> HttpExtensions,
     budget |-> MaxRequests - 1, envelopes |-> MaxEnvelopes,
     capacity |-> ChannelCapacity, servers |-> {FALSE},
     event_ids |-> {TRUE}, pings |-> FALSE]

HookInit ==
    /\ stateful_mode \in BOOLEAN
    /\ sse_keep_alive = FALSE
    /\ max_inflight = 1
    /\ token_passthrough \in BOOLEAN
    /\ on_request \in BOOLEAN
    /\ workload = HookWorkload
    /\ Fresh

HookSpec == HookInit /\ [][Next]_vars

\* Streams of every kind, with requests that pass validation and an engine
\* that puts more than one envelope on a stream.
StreamWorkload ==
    [posts |-> {[accept |-> {"json", "sse"}, ctype |-> "json", body |-> b] :
                  b \in {"initialize", "call"}},
     auths |-> {{}}, exts |-> {{}},
     budget |-> MaxRequests - 1, envelopes |-> MaxEnvelopes + 1,
     capacity |-> ChannelCapacity, servers |-> {FALSE},
     event_ids |-> {TRUE}, pings |-> FALSE]

StreamInit ==
    /\ stateful_mode \in BOOLEAN
    /\ sse_keep_alive \in BOOLEAN
    /\ max_inflight = 1
    /\ token_passthrough = FALSE
    /\ on_request = FALSE
    /\ workload = StreamWorkload
    /\ Fresh

StreamNext ==
    \/ Next
    \/ \E h \in Handlers : SseConnect(h)
    \/ \E s \in SessionIds : SseCleanup(s)
    \/ \E s \in SessionIds : SseAccept(s)

StreamSpec == StreamInit /\ [][StreamNext]_vars

\* tokio::select! without `biased` polls its branches in random order: a
\* branch that stays ready is taken.
StreamFairness == \A h \in Handlers : WF_vars(StreamBranch(h, "data"))

StreamFairSpec == StreamSpec /\ StreamFairness

\* The legacy server inside an HTTP server the embedder runs, with two
\* requests in flight and an inbound channel that holds several messages.
LegacyWorkload ==
    [posts |-> {}, auths |-> {{}}, exts |-> {{}},
     budget |-> MaxRequests, envelopes |-> MaxEnvelopes,
     capacity |-> MaxEnvelopes + 1, servers |-> {FALSE},
     event_ids |-> {TRUE}, pings |-> FALSE]

LegacyInit ==
    /\ stateful_mode = FALSE
    /\ sse_keep_alive = FALSE
    /\ max_inflight = 2
    /\ token_passthrough = FALSE
    /\ on_request = FALSE
    /\ workload = LegacyWorkload
    /\ Fresh

LegacyNext ==
    \/ \E h \in Handlers : SseConnect(h)
    \/ \E h \in Handlers : SsePost(h)
    \/ \E h \in Handlers : ClientDone(h)
    \/ \E s \in SessionIds : SseAccept(s)
    \/ \E s \in SessionIds : SseDeliver(s)
    \/ \E s \in SessionIds : SseServiceEnds(s)
    \/ \E s \in SessionIds : SseServiceFails(s)
    \/ \E s \in SessionIds : SseRemoveOnClose(s)
    \/ \E s \in SessionIds : SseCleanup(s)
    \/ CancelServer

LegacySpec == LegacyInit /\ [][LegacyNext]_vars

\* The legacy server behind either kind of HTTP server, from connection to
\* teardown: clients connect, submit, disconnect; the server may be cancelled.
TeardownWorkload ==
    [posts |-> {}, auths |-> {{}, {<<"Bearer", " ", "abc">>}}, exts |-> {{}},
     budget |-> MaxRequests - 1, envelopes |-> MaxEnvelopes,
     capacity |-> MaxEnvelopes, servers |-> BOOLEAN,
     event_ids |-> {TRUE}, pings |-> FALSE]

TeardownInit ==
    /\ stateful_mode = FALSE
    /\ sse_keep_alive = FALSE
    /\ max_inflight = 2
    /\ token_passthrough = FALSE
    /\ on_request = FALSE
    /\ workload = TeardownWorkload
    /\ Fresh

TeardownNext ==
    \/ \E h \in Handlers : SseConnect(h)
    \/ \E h \in Handlers : SsePost(h)
    \/ \E h \in Handlers : StreamStep(h)
    \/ \E h \in Handlers : ClientDone(h)
    \/ \E h \in Handlers : ServerCloseConnection(h)
    \/ \E s \in SessionIds : SseAccept(s)
    \/ \E s \in SessionIds : SseDeliver(s)
    \/ \E s \in SessionIds : SseServiceEnds(s)
    \/ \E s \in SessionIds : SseServiceFails(s)
    \/ \E s \in SessionIds : SseRemoveOnClose(s)
    \/ \E s \in SessionIds : SseCleanup(s)
    \/ CancelServer

TeardownSpec == TeardownInit /\ [][TeardownNext]_vars

\* What the runtime guarantees of the legacy server: the spawned tasks and
\* the transport loop take their next step, a service reads what is in its
\* channel and leaves once its token is cancelled or its input has ended, the
\* stream loop of a response goes on, and a stopped server closes its
\* connections.  Nothing is assumed of the clients.
TeardownFairness ==
    /\ \A s \in SessionIds :
         /\ WF_vars(SseCleanup(s))
         /\ WF_vars(SseRemoveOnClose(s))
         /\ WF_vars(SseAccept(s))
         /\ WF_vars(SseDeliver(s))
         /\ WF_vars(SseServiceEnds(s))
    /\ \A h \in Handlers :
         /\ WF_vars(StreamStep(h))
         /\ WF_vars(ServerCloseConnection(h))

TeardownFairSpec == TeardownSpec /\ TeardownFairness

\* Both channels of a legacy session under load: channels of a capacity a run
\* can fill, a service that sends more than a channel holds, and clients that
\* submit more than the service reads.
ChannelWorkload ==
    [posts |-> {}, auths |-> {{}}, exts |-> {{}},
     budget |-> MaxRequests, envelopes |-> MaxEnvelopes + 1,
     capacity |-> MaxEnvelopes, servers |-> {FALSE},
     event_ids |-> {TRUE}, pings |-> FALSE]

ChannelInit ==
    /\ stateful_mode = FALSE
    /\ sse_keep_alive = FALSE
    /\ max_inflight = 2
    /\ token_passthrough = FALSE
    /\ on_request = FALSE
    /\ workload = ChannelWorkload
    /\ Fresh

ChannelNext ==
    \/ \E h \in Handlers : SseConnect(h)
    \/ \E h \in Handlers : SsePost(h)
    \/ \E h \in Handlers : SsePostResume(h)
    \/ \E h \in Handlers : EngineEmit(h)
    \/ \E h \in Handlers : StreamStep(h)
    \/ \E h \in Handlers : ClientDone(h)
    \/ \E s \in SessionIds : SseAccept(s)
    \/ \E s \in SessionIds : SseDeliver(s)
    \/ \E s \in SessionIds : SseCleanup(s)

ChannelSpec == ChannelInit /\ [][ChannelNext]_vars

\* Stateful service with two requests in flight at a time: handlers race each
\* other and the tasks of the sessions.
RaceWorkload ==
    [posts |-> {[accept |-> {"json", "sse"}, ctype |-> "json", body |-> b] :
                  b \in {"initialize", "notification"}},
     auths |-> {{}}, exts |-> {{}},
     budget |-> MaxRequests, envelopes |-> MaxEnvelopes,
     capacity |-> ChannelCapacity, servers |-> {FALSE},
     event_ids |-> {TRUE}, pings |-> FALSE]

RaceInit ==
    /\ stateful_mode = TRUE
    /\ sse_keep_alive = FALSE
    /\ max_inflight = 2
    /\ token_passthrough = FALSE
    /\ on_request = FALSE
    /\ workload = RaceWorkload
    /\ Fresh

RaceNext ==
    \/ \E h \in Handlers : PostBegin(h)
    \/ \E h \in Handlers : PostGetService(h)
    \/ \E h \in Handlers : PostInitCall(h)
    \/ \E h \in Handlers : PostInitReturn(h)
    \/ \E h \in Handlers : PostDispatch(h)
    \/ \E h \in Handlers : DeleteSession(h)
    \/ \E h \in Handlers : ClientDone(h)
    \/ \E s \in SessionIds : EngineInitialize(s)
    \/ \E s \in SessionIds : EngineExit(s)
    \/ \E s \in SessionIds : TaskCloseSession(s)

RaceSpec == RaceInit /\ [][RaceNext]_vars

\* Response bodies written out chunk by chunk: envelopes with and without an
\* event id, keep-alives recorded, session streams next to legacy streams.
FrameWorkload ==
    [posts |-> RequestPosts, auths |-> {{}}, exts |-> {{}},
     budget |-> MaxRequests - 1, envelopes |-> MaxEnvelopes + 1,
     capacity |-> ChannelCapacity, servers |-> {FALSE},
     event_ids |-> BOOLEAN, pings |-> TRUE]

FrameInit ==
    /\ stateful_mode \in BOOLEAN
    /\ sse_keep_alive \in BOOLEAN
    /\ max_inflight = 1
    /\ token_passthrough = FALSE
    /\ on_request = FALSE
    /\ workload = FrameWorkload
    /\ Fresh

FrameSpec == FrameInit /\ [][StreamNext]_vars

\* Sessions being opened: initialize requests only, with backends that answer,
\* fail or exit at any point.
InitWorkload ==
    [posts |-> {[accept |-> {"json", "sse"}, ctype |-> "json", body |-> "initialize"]},
     auths |-> {{}}, exts |-> {{}},
     budget |-> MaxRequests - 1, envelopes |-> MaxEnvelopes,
     capacity |-> ChannelCapacity, servers |-> {FALSE},
     event_ids |-> {TRUE}, pings |-> FALSE]

InitInit ==
    /\ stateful_mode = TRUE
    /\ sse_keep_alive = FALSE
    /\ max_inflight = 1
    /\ token_passthrough = FALSE
    /\ on_request = FALSE
    /\ workload = InitWorkload
    /\ Fresh

InitNext ==
    \/ \E h \in Handlers : PostBegin(h)
    \/ \E h \in Handlers : PostGetService(h)
    \/ \E h \in Handlers : PostInitCall(h)
    \/ \E h \in Handlers : PostInitReturn(h)
    \/ \E h \in Handlers : DeleteSession(h)
    \/ \E h \in Handlers : ClientDone(h)
    \/ \E s \in SessionIds : EngineInitialize(s)
    \/ \E s \in SessionIds : EngineServe(s)
    \/ \E s \in SessionIds : EngineExit(s)
    \/ \E s \in SessionIds : TaskCloseSession(s)

InitSpec == InitInit /\ [][InitNext]_vars

\* What the runtime guarantees: the spawned task and the handler take their
\* next step when they can.  Nothing is assumed of the backend or the clients.
InitFairness ==
    /\ \A s \in SessionIds : WF_vars(TaskCloseSession(s))
    /\ \A h \in Handlers :
         /\ WF_vars(PostGetService(h))
         /\ WF_vars(PostInitCall(h))
         /\ WF_vars(PostInitReturn(h))

InitFairSpec == InitSpec /\ InitFairness

\* Submissions against inbound channels that fill up, next to connections
\* and cleanups of other sessions.
SubmitWorkload ==
    [posts |-> {}, auths |-> {{}}, exts |-> {{}},
     budget |-> MaxRequests + 1, envelopes |-> MaxEnvelopes,
     capacity |-> MaxEnvelopes, servers |-> {FALSE},
     event_ids |-> {TRUE}, pings |-> FALSE]

SubmitInit ==
    /\ stateful_mode = FALSE
    /\ sse_keep_alive = FALSE
    /\ max_inflight = 2
    /\ token_passthrough = FALSE
    /\ on_request = FALSE
    /\ workload = SubmitWorkload
    /\ Fresh

SubmitNext ==
    \/ \E h \in Handlers : SseConnect(h)
    \/ \E h \in Handlers : SsePost(h)
    \/ \E h \in Handlers : SsePostResume(h)
    \/ \E h \in Handlers : ClientDone(h)
    \/ \E s \in SessionIds : SseAccept(s)
    \/ \E s \in SessionIds : SseDeliver(s)
    \/ \E s \in SessionIds : SseCleanup(s)

SubmitSpec == SubmitInit /\ [][SubmitNext]_vars

\* Messages of every kind, with and without a bearer credential, on a service
\* built with the passthrough feature.
KindWorkload ==
    [posts |-> {[accept |-> {"json", "sse"}, ctype |-> "json", body |-> b] :
                  b \in Bodies \ {"malformed"}},
     auths |-> {{}, {<<"Bearer", " ", "abc">>}}, exts |-> {{}},
     budget |-> MaxRequests - 1, envelopes |-> MaxEnvelopes,
     capacity |-> ChannelCapacity, servers |-> {FALSE},
     event_ids |-> {TRUE}, pings |-> FALSE]

KindInit ==
    /\ stateful_mode = TRUE
    /\ sse_keep_alive = FALSE
    /\ max_inflight = 1
    /\ token_passthrough = TRUE
    /\ on_request = FALSE
    /\ workload = KindWorkload
    /\ Fresh

KindSpec == KindInit /\ [][Next]_vars

\* ------------------------------------------------------------------ claims
ValidPost(h) == req[h].method = "POST" /\ PostPrecheck(req[h]) = 0

\* A stateful POST without session id whose message is an initialize request.
InitPost(h) ==
    stateful_mode /\ ValidPost(h) /\ req[h].sid = {} /\ IsInitialize(req[h].body)

\* A stateful POST that carries a session id and a message that deserializes.
SessionPost(h) == stateful_mode /\ ValidPost(h) /\ req[h].sid # {}

\* C1 as stated: every valid initialize POST creates exactly one session,
\* returns 200 with exactly one Mcp-Session-Id header naming it, and a lookup
\* of that id succeeds when the response is returned.
C1_EveryInitializeGetsSession ==
    \A h \in Handlers :
        (InitPost(h) /\ pc[h] = "done") =>
            /\ Cardinality(eff[h].created) = 1
            /\ resp[h].status = 200
            /\ resp[h].session = eff[h].created
            /\ eff[h].found

\* C1 (amended): a valid initialize POST creates exactly one session and ends
\* in 200 or, when the service factory or initialize_session fails, in 500
\* without a session id header; a 200 carries exactly one Mcp-Session-Id
\* header, naming the created session, and a lookup of that id when the
\* response is returned succeeds unless the session's backend task has by
\* then finished and closed it.
C1_InitializeReturnsSession ==
    \A h \in Handlers :
        (InitPost(h) /\ pc[h] = "done") =>
            /\ Cardinality(eff[h].created) = 1
            /\ resp[h].status \in {200, 500}
            /\ resp[h].status = 500 => resp[h].session = {}
            /\ resp[h].status = 200 =>
                 /\ resp[h].session = eff[h].created
                 /\ eff[h].found \/ \A i \in eff[h].created : task[i] = "done"

C1_Witness ==
    \E h \in Handlers :
        /\ InitPost(h) /\ pc[h] = "done" /\ resp[h].status = 200
        /\ eff[h].found /\ resp[h].session \subseteq sessions
        /\ resp[h].session # {}

\* C2: once a DELETE for a session id has returned 204, the id is in the store
\* no more, and every later stateful POST or GET that carries it is answered
\* at once, with 401 when it passes the header and body checks (with the
\* status of the failing check otherwise), hands no message to a backend,
\* calls no factory and attaches no stream.
C2_ClosedSessionStaysClosed ==
    /\ closed \cap sessions = {}
    /\ \A h \in Handlers :
         (stateful_mode /\ eff[h].after_close /\ req[h].method \in {"POST", "GET"}) =>
            /\ pc[h] = "done"
            /\ resp[h].status \in {401, 406, 415, 400}
            /\ (req[h].method = "POST" /\ PostPrecheck(req[h]) = 0) => resp[h].status = 401
            /\ (req[h].method = "GET" /\ GetAcceptOk(req[h].accept)) => resp[h].status = 401
            /\ eff[h].enq = 0 /\ eff[h].factory = 0 /\ eff[h].streams = 0
            /\ eff[h].created = {}

C2_Witness ==
    \E h \in Handlers :
        /\ stateful_mode /\ eff[h].after_close /\ ValidPost(h)
        /\ req[h].sid \subseteq SessionIds
        /\ resp[h].status = 401

\* The request names a session id that the store did not hold when the
\* request arrived, and nothing else is wrong with it.
UnknownSessionRequest(h) ==
    /\ req[h].sid # {}
    /\ ~eff[h].known
    /\ \/ req[h].method = "DELETE"
       \/ req[h].method = "GET" /\ GetAcceptOk(req[h].accept)
       \/ SessionPost(h)

\* C3: GET, stateful POST and DELETE with a session id that is not in the
\* store each return the unknown-session outcome (401), never a success, a
\* 5xx or a handler left waiting.
C3_UnknownSessionOutcome ==
    \A h \in Handlers :
        UnknownSessionRequest(h) => (pc[h] = "done" /\ resp[h].status = 401)

\* C4: of two DELETEs in sequence on the same existing session id the first
\* returns 204 and the second a not-found outcome, and the session is removed
\* exactly once.
C4_SecondDeleteNotFound ==
    \A h \in Handlers :
        (req[h].method = "DELETE" /\ eff[h].after_close /\ pc[h] = "done"
         /\ req[h].sid \subseteq SessionIds) =>
            /\ resp[h].status \in {401, 404}
            /\ eff[h].removed = {}

\* A stateful POST without session id whose message deserializes.
FirstContactPost(h) == stateful_mode /\ ValidPost(h) /\ req[h].sid = {}

\* C5: a stateful POST without session id goes on to a session only when its
\* message is an initialize request; with any other message it is answered
\* 422 at once, no service instance is constructed and no task is spawned.
C5_OnlyInitializeOpensSession ==
    \A h \in Handlers :
        (FirstContactPost(h) /\ ~IsInitialize(req[h].body)) =>
            /\ pc[h] = "done"
            /\ resp[h].status = 422
            /\ resp[h].session = {}
            /\ eff[h].factory = 0
            /\ eff[h].spawned = 0
            /\ \A i \in eff[h].created : task[i] = "none"

C5_Witness ==
    \E h \in Handlers :
        /\ FirstContactPost(h) /\ req[h].body = "notification"
        /\ pc[h] = "done" /\ resp[h].status = 422
        /\ eff[h].created # {}

\* C6: a POST answered 406, 415, 400, 422 or 401 has called no
\* create_session and no factory and has enqueued nothing: the store holds no
\* session the request created.
C6_RejectedPostTouchesNothing ==
    \A h \in Handlers :
        (req[h].method = "POST" /\ pc[h] = "done"
         /\ resp[h].status \in {406, 415, 400, 422, 401}) =>
            /\ eff[h].created = {}
            /\ eff[h].factory = 0
            /\ eff[h].enq = 0

\* C7: when the service factory fails while an initialize POST is handled
\* (500), the store holds no entry for the session id allocated for that
\* request.
C7_FailedConstructionLeavesNoSession ==
    \A h \in Handlers :
        (InitPost(h) /\ pc[h] = "done" /\ resp[h].status = 500
         /\ eff[h].factory = 1 /\ eff[h].spawned = 0) =>
            eff[h].created \cap sessions = {}

\* The spawned task of session s has left serve_server or waiting() and has
\* not yet run its close_session.
TaskLeaving(s) == task[s] = "exited"

\* C8 (eventually, under the fairness of the runtime): once the task of a
\* session has left serve_server or waiting(), the session leaves the store.
C8_Eventually ==
    \A s \in SessionIds : TaskLeaving(s) ~> (task[s] = "done" /\ s \notin sessions)

RequestStreamExhausted(h) ==
    /\ pc[h] = "streaming"
    /\ stream[h].kind = "request"
    /\ DataBranchDisabled(stream[h])

\* C10: the response to a Request POST on an existing session ends once the
\* per-request stream has yielded its last envelope, with and without a
\* keep-alive interval.
C10_ResponseEndsAfterLastEnvelope ==
    \A h \in Handlers :
        RequestStreamExhausted(h) ~> (ended[h] \/ pc[h] # "streaming")

\* ------------------------------------------------------------ stateless mode
\* A POST to a stateless service that passes the header checks and carries a
\* message that deserializes.
StatelessPost(h) == ~stateful_mode /\ ValidPost(h) /\ pc[h] # "idle"

\* C11: in stateless mode every POST that passes header validation and
\* parses, whatever the kind of its message, calls the factory once for a
\* fresh backend instance, hands it the message and answers with the stream
\* of what the instance emits (500 when the factory fails).
C11_StatelessServesEveryKind ==
    \A h \in Handlers :
        StatelessPost(h) =>
            /\ eff[h].factory = 1
            /\ resp[h].status \in {200, 500}
            /\ resp[h].status = 200 => stream[h].kind = "oneshot"

\* The envelope frames of a response body (the legacy stream starts with an
\* endpoint event, which is not an envelope).
Envelopes(frames) == SelectSeq(frames, LAMBDA f : f # 0)

\* C12: in stateless mode the store never gets an entry and no response
\* carries a session id; two POSTs that differ only in their session-id
\* header get the same response unless the factory failed for one of them;
\* every streamed response has a backend instance and a one-shot stream of
\* its own, whose frames are the envelopes put on that stream and no other,
\* and no session channel or session task is involved.
C12_StatelessKeepsNothing ==
    ~stateful_mode =>
        /\ sessions = {} /\ next_id = 1
        /\ \A s \in SessionIds : task[s] = "none" /\ inbound[s] = <<>>
        /\ \A h \in Handlers :
              /\ resp[h].session = {} /\ sid[h] = {} /\ eff[h].created = {}
              /\ stream[h].kind \in {"none", "oneshot"}
              /\ stream[h].kind = "oneshot" =>
                    /\ eff[h].factory = 1
                    /\ emitted[h] \o stream[h].q = [i \in 1..stream[h].sent |-> i]
        /\ \A h, g \in Handlers :
              (/\ req[h].method = "POST" /\ req[g].method = "POST"
               /\ resp[h].status \notin {0, 500} /\ resp[g].status \notin {0, 500}
               /\ [req[h] EXCEPT !.sid = {}] = [req[g] EXCEPT !.sid = {}])
              => /\ resp[h].status = resp[g].status
                 /\ resp[h].body = resp[g].body

\* Two stateless POSTs are being served at once, one with a session-id header
\* and one without, each from its own instance, and one of them has emitted.
C12_Witness ==
    /\ ~stateful_mode
    /\ \E h, g \in Handlers :
          /\ h # g
          /\ StatelessPost(h) /\ StatelessPost(g)
          /\ req[h].sid # {} /\ req[g].sid = {}
          /\ [req[h] EXCEPT !.sid = {}] = req[g]
          /\ resp[h].status = 200 /\ resp[g].status = 200
          /\ emitted[h] = <<1>> /\ emitted[g] = <<>> /\ stream[g].sent = 0

\* ------------------------------------------------------------------ streams
\* C13: on every stream (GET, per-request, stateless, legacy) the envelope
\* frames written to the response, followed by the envelopes still queued,
\* are the envelopes the producer put on the stream, in its order, each once:
\* no frame is reordered, duplicated or dropped, whatever keep-alive frames
\* come in between.
C13_FramesInProducerOrder ==
    \A h \in Handlers :
        stream[h].kind # "none" =>
            Envelopes(emitted[h]) \o stream[h].q = [i \in 1..stream[h].sent |-> i]

\* A GET stream has carried a keep-alive frame and both envelopes, which were
\* queued together.
C13_Witness ==
    \E h \in Handlers :
        /\ stream[h].kind = "standalone" /\ stream[h].pinged
        /\ stream[h].sent = 2 /\ emitted[h] = <<1, 2>>

\* C14: with keep-alive enabled, every envelope put on a stream is written
\* to the response as long as the client keeps reading, however often the
\* timer fires.
C14_KeepAliveNeverStarves ==
    \A h \in Handlers : \A n \in 1..(MaxEnvelopes + 1) :
        (pc[h] = "streaming" /\ KeepAlive(h) /\ stream[h].sent >= n)
            ~> (pc[h] # "streaming" \/ \E i \in 1..Len(emitted[h]) : emitted[h][i] = n)

\* With keep-alive on, a ping has been written while an envelope was queued,
\* and the envelope was written after it.
C14_Witness ==
    \E h \in Handlers :
        /\ pc[h] = "streaming" /\ KeepAlive(h) /\ stream[h].pinged
        /\ stream[h].sent = 2 /\ stream[h].q = <<>>
        /\ Envelopes(emitted[h]) = <<1, 2>>

\* --------------------------------------------------------------- validation
\* C15: a POST is checked in the order Accept (406), Content-Type (415), body
\* (400), and only a request that passes all three can be rejected for the
\* kind of its message (422): a stateful POST without session id that is not
\* an initialize request, a stateless POST that is not a Request.  A request
\* that fails several checks gets the status of the first.
C15_PostChecksInOrder ==
    \A h \in Handlers :
        (req[h].method = "POST" /\ pc[h] # "idle") =>
            LET r == req[h]
                both == "json" \in r.accept /\ "sse" \in r.accept
                wrong_kind ==
                    \/ stateful_mode /\ r.sid = {} /\ r.body # "initialize"
                    \/ ~stateful_mode /\ r.body \notin {"initialize", "call"}
            IN  /\ ~both => resp[h].status = 406
                /\ (both /\ r.ctype # "json") => resp[h].status = 415
                /\ (both /\ r.ctype = "json" /\ r.body = "malformed")
                      => resp[h].status = 400
                /\ (both /\ r.ctype = "json" /\ r.body # "malformed")
                      => /\ resp[h].status \notin {406, 415, 400}
                         /\ wrong_kind <=> resp[h].status = 422

\* A POST that fails all of the checks is answered 406.
C15_Witness ==
    \E h \in Handlers :
        /\ req[h].method = "POST" /\ req[h].accept = {"json"}
        /\ req[h].ctype = "other" /\ req[h].body = "malformed"
        /\ pc[h] = "done" /\ resp[h].status = 406

\* C16: a GET is checked in the order Accept (406), session id present (401),
\* session exists (401); a GET that fails a check attaches to and resumes no
\* stream.
C16_GetChecksInOrder ==
    \A h \in Handlers :
        (req[h].method = "GET" /\ pc[h] # "idle") =>
            LET r == req[h] IN
            /\ "sse" \notin r.accept => resp[h].status = 406
            /\ ("sse" \in r.accept /\ (r.sid = {} \/ ~eff[h].known))
                  => resp[h].status = 401
            /\ resp[h].status \in {406, 401}
                  => /\ pc[h] = "done" /\ eff[h].streams = 0
                     /\ stream[h].kind = "none"

\* A GET without text/event-stream in Accept and without session id is
\* answered 406.
C16_Witness ==
    \E h \in Handlers :
        /\ req[h].method = "GET" /\ req[h].accept = {"json"} /\ req[h].sid = {}
        /\ pc[h] = "done" /\ resp[h].status = 406

\* ------------------------------------------------------ request extensions
\* The Request message of a POST has been handed to a backend: to a one-shot
\* instance, to a new session through initialize_session, or to an existing
\* session through create_stream.
Handed(h) ==
    /\ ValidPost(h) /\ IsRequest(req[h].body)
    /\ \/ stream[h].kind = "oneshot"
       \/ InitPost(h) /\ (pc[h] = "init_wait" \/ resp[h].status = 200)
       \/ SessionPost(h) /\ eff[h].reach = "yes"

\* The AuthorizationHeader values among the extensions.
Credentials(bag) == {e.val : e \in {x \in bag : x.key = "AuthorizationHeader"}}

BearerAbc == <<"Bearer", " ", "abc">>

\* C17 as stated: a Request POST with `Authorization: Bearer abc` hands the
\* backend an extension bag with that credential, in each of the three paths.
C17_BearerAlwaysForwarded ==
    \A h \in Handlers :
        (Handed(h) /\ req[h].auth = {BearerAbc}) =>
            BearerAbc \in Credentials(eff[h].bag)

\* C17 (amended): it does when the crate is built with the feature
\* authorization-token-passthrough.
C17_BearerForwardedWithFeature ==
    \A h \in Handlers :
        (token_passthrough /\ Handed(h) /\ req[h].auth = {BearerAbc}) =>
            BearerAbc \in Credentials(eff[h].bag)

\* The credential has reached the backend of an existing session.
C17_Witness ==
    \E h \in Handlers :
        /\ token_passthrough /\ SessionPost(h) /\ Handed(h)
        /\ req[h].auth = {BearerAbc}
        /\ BearerAbc \in Credentials(eff[h].bag)
        /\ \E i \in sid[h] : BearerAbc \in Credentials(seen[i])

\* A strictly well-formed bearer credential: the scheme Bearer, one space, a
\* token that is not empty and has no whitespace.
WellFormedBearer(v) ==
    Len(v) = 3 /\ v[1] = "Bearer" /\ v[2] = " "
               /\ v[3] \in {"abc", "xyz", "rotated-token"}

\* C18: a header value that is not a strictly well-formed bearer credential,
\* and an absent header, put no credential into the extension bag, and the
\* request is served as without the header.
C18_OnlyWellFormedBearerForwarded ==
    \A h \in Handlers :
        (Handed(h) /\ \A v \in req[h].auth : ~WellFormedBearer(v)) =>
            /\ Credentials(eff[h].bag) = {}
            /\ resp[h].status \in {0, 200}

\* C19: the credential the backend of an existing session observes with a
\* Request is the one in that request's own Authorization header, whatever
\* the session's earlier requests carried; a request without the header is
\* observed without credential.
C19_CredentialIsPerRequest ==
    \A h \in Handlers :
        (SessionPost(h) /\ Handed(h)) =>
            /\ Credentials(eff[h].bag) \subseteq req[h].auth
            /\ (token_passthrough /\ \E v \in req[h].auth : WellFormedBearer(v))
                  => Credentials(eff[h].bag) = req[h].auth

\* A request with a rotated token reached a session whose initialize request
\* carried another one.
C19_Witness ==
    \E h \in Handlers :
        /\ SessionPost(h) /\ Handed(h)
        /\ Credentials(eff[h].bag) = {<<"Bearer", " ", "rotated-token">>}
        /\ \E i \in sid[h] : BearerAbc \in Credentials(seen[i])

\* C20: with an on_request hook, what the hook writes for a request (here:
\* what the middleware left in the HTTP request's extensions) is in the
\* extension bag handed to the backend in each of the three paths; without a
\* hook nothing of the HTTP request's extensions is.
C20_HookFeedsBackend ==
    \A h \in Handlers :
        Handed(h) =>
            /\ on_request => req[h].ext \subseteq eff[h].bag
            /\ ~on_request => eff[h].bag \cap HttpExtensionItems = {}

\* The hook's value has reached the backend of a new session.
C20_Witness ==
    \E h \in Handlers :
        /\ on_request /\ InitPost(h) /\ Handed(h) /\ resp[h].status = 200
        /\ req[h].ext # {} /\ req[h].ext \subseteq eff[h].bag
        /\ \E i \in sid[h] : req[h].ext \subseteq seen[i]

\* ------------------------------------------------- legacy transport, claims
\* A legacy event stream that is connected.
SseStreaming(h) == req[h].method = "SSE" /\ pc[h] = "streaming"

\* A legacy submission that has been answered.
SseAnswered(g) == req[g].method = "SSE_POST" /\ pc[g] = "done"

\* C21: a connected legacy stream belongs to a session id allocated for it,
\* its first frame is the endpoint event, and a submission that names the
\* announced id while the stream is connected is never answered 404.
C21_AnnouncedSessionFound ==
    \A h \in Handlers :
        SseStreaming(h) =>
            /\ sid[h] = eff[h].created
            /\ emitted[h] # <<>> /\ emitted[h][1] = 0
            /\ \A g \in Handlers :
                 (SseAnswered(g) /\ req[g].sid = sid[h]) => resp[g].status # 404

\* C22: a legacy submission whose body deserializes is answered 404 exactly
\* when txs has no sender for its sessionId, 410 exactly when it has one and
\* the receiving side of the channel is gone, and 202 exactly when it has one
\* and the message was put on the channel; the Authorization header plays no
\* part in it.
C22_SubmissionOutcome ==
    \A g \in Handlers :
        (SseAnswered(g) /\ req[g].body # "malformed") =>
            /\ resp[g].status \in {202, 404, 410}
            /\ resp[g].status = 404 <=> ~eff[g].known
            /\ resp[g].status = 410 <=> (eff[g].known /\ eff[g].reach = "no")
            /\ resp[g].status = 202 <=>
                 (eff[g].known /\ eff[g].reach = "yes" /\ eff[g].enq = 1)
            /\ resp[g].status = 202 =>
                 \E c \in req[g].sid :
                     \E i \in 1..Len(legacy.accepted[c]) :
                         legacy.accepted[c][i][1] = req[g].body
            /\ resp[g].status = 410 => \A c \in req[g].sid : ~InboundAlive(c)

\* A submission with an Authorization header was accepted for the session of
\* a connected stream.
C22_Witness ==
    \E g, h \in Handlers :
        /\ SseAnswered(g) /\ resp[g].status = 202 /\ req[g].auth # {}
        /\ SseStreaming(h) /\ req[g].sid = sid[h]

\* The client of session s has dropped its event stream and the cleanup task
\* of the session has not run yet.
Disconnected(s) ==
    /\ task[s] = "cleanup"
    /\ \A h \in Handlers : ~(pc[h] = "streaming" /\ sid[h] = {s})

\* The service bound to session s has ended.
ServiceEnded(s) == legacy.state[s] \in {"quit", "dropped", "gone"}

\* C23: once the client of a legacy session has disconnected from its event
\* stream, the session's entry is eventually removed from the store and the
\* service bound to the session eventually ends: from some point on, no
\* session whose client has disconnected still has its entry or a service.
C23_DisconnectEndsSession ==
    <>[](\A s \in SessionIds :
            (Disconnected(s) \/ task[s] = "done") =>
                (s \notin txs /\ ServiceEnded(s)))

\* A session whose client disconnected while its service was running, with
\* no cancellation: the entry is removed and the service has left its loop
\* because its input ended.
C23_Witness ==
    \E s \in SessionIds :
        /\ ~legacy.ct
        /\ task[s] = "done"
        /\ s \notin txs
        /\ legacy.state[s] = "quit"
        /\ legacy.delivered[s] # <<>>

\* C24: once SseServer::cancel has been called, eventually no service is
\* running or waiting to be spawned, no event stream is connected any more,
\* and the HTTP server started by serve_with_config has closed its
\* connections.
C24_CancelEndsServicesAndStreams ==
    legacy.ct ~>
        /\ \A s \in SessionIds : legacy.state[s] \notin {"queued", "serving"}
        /\ \A h \in Handlers : ~SseStreaming(h)
        /\ legacy.own_server => \A h \in Handlers : pc[h] = "idle"

\* C25: every session the store holds has exactly one task bound to it, and
\* no session id ever has more than one; every legacy transport is received
\* by at most one service, and a transport a service holds was received once.
C25_OneTaskPerSession ==
    /\ \A s \in sessions : task[s] \in {"serving", "running", "exited"}
    /\ stateful_mode =>
         \A h \in Handlers : eff[h].spawned <= Cardinality(eff[h].created)
    /\ \A s \in SessionIds :
         /\ legacy.spawned[s] <= 1
         /\ legacy.state[s] \in {"serving", "quit", "dropped", "gone"}
              <=> legacy.spawned[s] = 1

\* C27: both channels of a legacy session hold at most their capacity.  A
\* service whose outbound channel is full cannot send, and what it has sent
\* is written to the response or still queued, in order.  A submission that
\* finds the inbound channel full is suspended with its message: it has
\* returned nothing and the message is neither accepted nor lost.
C27_ChannelsBoundedAndBlocking ==
    /\ \A s \in SessionIds : Len(legacy.inq[s]) <= workload.capacity
    /\ \A h \in Handlers :
         SseStreaming(h) =>
            /\ Len(stream[h].q) <= workload.capacity
            /\ Len(stream[h].q) = workload.capacity => ~ENABLED EngineEmit(h)
            /\ Envelopes(emitted[h]) \o stream[h].q
                 = [i \in 1..stream[h].sent |-> i]
    /\ \A g \in Handlers :
         pc[g] = "sse_sending" =>
            /\ resp[g].status = 0
            /\ eff[g].enq = 0
            /\ Len(legacy.sending[g]) = 1
            /\ \A c \in sid[g] :
                 /\ (InboundAlive(c) /\ Len(legacy.inq[c]) = workload.capacity)
                      => ~ENABLED SsePostResume(g)
                 /\ \A i \in 1..Len(legacy.accepted[c]) :
                      legacy.accepted[c][i] # legacy.sending[g][1]

\* The service of a session is blocked on a full outbound channel while a
\* submission to the session is suspended on a full inbound channel.
C27_Witness ==
    \E h, g \in Handlers :
        /\ SseStreaming(h)
        /\ Len(stream[h].q) = workload.capacity
        /\ stream[h].sent < workload.envelopes
        /\ pc[g] = "sse_sending" /\ sid[g] = sid[h]

\* s is a prefix of t.
IsPrefix(s, t) == Len(s) <= Len(t) /\ \A i \in 1..Len(s) : s[i] = t[i]

\* The number of places of sequence q that hold m.
Occurrences(q, m) == Cardinality({i \in 1..Len(q) : q[i] = m})

\* C28: what the service of a legacy session has read is a prefix of the
\* messages accepted for that session, in the order of their acceptance, and
\* while the service can read, the rest is in the channel; a message accepted
\* with 202 is among the accepted messages of the session it named, once, and
\* of no other session.  A stateful POST answered 202 has put its message at
\* the back of the messages handed to the backend of its session.
C28_AcceptedMessagesInOrder ==
    /\ \A s \in SessionIds :
         /\ IsPrefix(legacy.delivered[s], legacy.accepted[s])
         /\ InboundAlive(s) =>
              legacy.delivered[s] \o legacy.inq[s] = legacy.accepted[s]
    /\ \A g \in Handlers :
         (SseAnswered(g) /\ resp[g].status = 202) =>
            /\ legacy.sending[g][1][1] = req[g].body
            /\ \A s \in SessionIds :
                 Occurrences(legacy.accepted[s], legacy.sending[g][1])
                   = IF s \in req[g].sid THEN 1 ELSE 0
    /\ \A h \in Handlers :
         (SessionPost(h) /\ pc[h] = "done" /\ resp[h].status = 202) =>
            /\ ~IsRequest(req[h].body)
            /\ eff[h].enq = 1
            /\ \A i \in sid[h] : has_session(sessions, i) =>
                   /\ Len(inbound[i]) > 0
                   /\ inbound[i][Len(inbound[i])] = req[h].body

\* The service of a session has read two accepted messages that were in its
\* channel together.
C28_Witness ==
    \E s \in SessionIds :
        /\ Len(legacy.delivered[s]) = 2
        /\ legacy.delivered[s] = legacy.accepted[s]
        /\ legacy.delivered[s][1] # legacy.delivered[s][2]

\* The session a streaming handler is bound to has been removed from the
\* store it was in.
SessionRemoved(h) ==
    /\ pc[h] = "streaming"
    /\ sid[h] # {}
    /\ IF stream[h].kind = "legacy" THEN sid[h] \cap txs = {}
       ELSE sid[h] \cap sessions = {}

\* C29: when the task of a session ends while a response streams from the
\* session, the response eventually carries an error-kind message as its
\* last frame (frames below zero stand for error-kind messages) and then
\* ends, unless the client has gone before.
C29_TaskFailureEndsStream ==
    \A h \in Handlers :
        (pc[h] = "streaming" /\ \E s \in sid[h] : task[s] \in {"exited", "done"})
            ~> \/ pc[h] # "streaming"
               \/ /\ ended[h]
                  /\ emitted[h] # <<>>
                  /\ emitted[h][Len(emitted[h])] < 0

\* C30: once the session of a streaming response has been removed, the
\* response eventually ends, unless the client has gone before.
C30_RemovedSessionEndsStreams ==
    \A h \in Handlers :
        SessionRemoved(h) ~> (pc[h] # "streaming" \/ ended[h])

\* A request that named a session the store held when the handler looked it
\* up, and that has been answered.
SessionScoped(h) ==
    /\ pc[h] = "done"
    /\ req[h].method \in {"POST", "GET"}
    /\ req[h].sid # {}
    /\ eff[h].known

\* C31: a request for a session that is removed while the request is being
\* handled sees the session present, and is handled normally, or absent, and
\* gets the unknown-session outcome: it is never answered with a 5xx, and a
\* legacy submission is accepted only into a channel that still has its
\* receiver.
C31_RemovalRaceIsAtomic ==
    /\ \A h \in Handlers :
         SessionScoped(h) => resp[h].status < 500
    /\ \A g \in Handlers :
         SseAnswered(g) => resp[g].status \in {202, 400, 404, 410}

\* A stateless POST that reaches a backend: it passed validation and carries
\* a request.
StatelessServed(h) == StatelessPost(h) /\ IsRequest(req[h].body)

\* C32: the factory is invoked once per session and once per served stateless
\* POST: an answered request made as many factory calls as it created
\* sessions, plus one when it is a served stateless POST; GET, DELETE and POST
\* to an existing session make none; a legacy transport gets one service.
C32_FactoryOncePerSession ==
    /\ \A h \in Handlers :
         pc[h] = "done" =>
            /\ eff[h].factory = Cardinality(eff[h].created)
                                  + (IF StatelessServed(h) THEN 1 ELSE 0)
            /\ (req[h].method \in {"GET", "DELETE"} \/ SessionPost(h))
                  => eff[h].factory = 0
    /\ \A s \in SessionIds : legacy.spawned[s] <= 1

\* Handler h is inside the service factory, called for the session it created.
InFactory(h) == pc[h] = "get_service"

\* C33: the factory is never called with the session store locked: while a
\* handler is inside the factory, closing another session whose task has
\* exited, and every store call another handler is about to make (lookup,
\* stream creation, session creation, removal), can be made.
C33_FactoryOutsideStoreLock ==
    \A h \in Handlers :
        InFactory(h) =>
            /\ \A s \in SessionIds \ sid[h] :
                 task[s] = "exited" => ENABLED TaskCloseSession(s)
            /\ \A g \in Handlers \ {h} :
                 /\ pc[g] = "post_checked" => ENABLED PostDispatch(g)
                 /\ pc[g] = "get_checked" => ENABLED GetAttach(g)
                 /\ pc[g] = "init_call" => ENABLED PostInitCall(g)
                 /\ CanBegin(g) => ENABLED DeleteSession(g) /\ ENABLED PostBegin(g)

\* A handler is inside the factory while another handler is about to hand a
\* message to another session.
C33_Witness ==
    \E h \in Handlers :
        /\ InFactory(h)
        /\ \E g \in Handlers \ {h} : pc[g] = "post_checked" /\ sid[g] # sid[h]

\* The field names of the lines of a chunk, in order.
Fields(c) == [i \in 1..Len(c) |-> c[i].field]

\* The chunks written so far to the body of h's response.
Chunks(h) == {eff[h].wire[i] : i \in 1..Len(eff[h].wire)}

\* A keep-alive chunk: one comment line and the blank line.
IsKeepAlive(c) == Fields(c) = <<":", "">>

\* An event frame: an id line exactly when the envelope has an event id, one
\* data line, the blank line.
IsEventFrame(h, c) ==
    \/ Fields(c) = <<"data", "">> /\ c[1].value \notin stream[h].ids
    \/ Fields(c) = <<"id", "data", "">> /\ c[2].value \in stream[h].ids
                                        /\ c[1].value = c[2].value

\* A frame of the legacy stream: an event line naming one of `events`, one
\* data line, the blank line.
IsNamedFrame(c, events) ==
    /\ Fields(c) = <<"event", "data", "">>
    /\ c[1].value \in events

C35_InitializeResponseIsOneFrame ==
    \A h \in Handlers :
        /\ (InitPost(h) /\ resp[h].status = 200) =>
              /\ pc[h] = "done"
              /\ ended[h]
              /\ Len(eff[h].wire) = 1
              /\ Fields(eff[h].wire[1]) = <<"data", "">>
              /\ stream[h].kind = "none"
              /\ ~stream[h].pinged
        /\ pc[h] \in {"init_call", "init_wait"} =>
              /\ eff[h].spawned = 1
              /\ \A s \in sid[h] : task[s] # "none"

\* An initialize POST has been answered 200 on a service with keep-alive.
C35_Witness ==
    \E h \in Handlers :
        /\ InitPost(h)
        /\ resp[h].status = 200
        /\ pc[h] = "done"
        /\ sse_keep_alive

\* C36: a GET that has passed validation makes one attach call, resume when
\* it carries Last-Event-ID and create_standalone_stream otherwise; when the
\* call fails the answer is 500, no stream is attached and the store and the
\* channels of the sessions are what they were.
C36_GetAttachesOnce ==
    [][\A h \in Handlers :
         (pc[h] = "get_checked" /\ pc'[h] # "get_checked") =>
            /\ sessions' = sessions
            /\ inbound' = inbound
            /\ \/ /\ resp'[h].status = 200
                  /\ pc'[h] = "streaming"
                  /\ eff'[h].streams = 1
                  /\ stream'[h].open
                  /\ stream'[h].kind =
                        (IF req[h].last_event_id THEN "resume" ELSE "standalone")
                  /\ \A g \in Handlers \ {h} : stream'[g] = stream[g]
               \/ /\ resp'[h].status = 500
                  /\ pc'[h] = "done"
                  /\ eff'[h].streams = 0
                  /\ stream' = stream]_vars

\* A GET with Last-Event-ID is streaming from a resumed stream.
C36_Witness ==
    \E h \in Handlers :
        /\ req[h].method = "GET"
        /\ req[h].last_event_id
        /\ pc[h] = "streaming"
        /\ stream[h].kind = "resume"

\* The handler of an initialize POST is at or in initialize_session and the
\* task of its session has left the backend without an initialize response.
InitializeAbandoned(h) ==
    /\ pc[h] \in {"init_call", "init_wait"}
    /\ \E s \in sid[h] : task[s] \in {"exited", "done"} /\ init[s] # "answered"

\* C37: an initialize POST whose backend task fails or exits before it has
\* produced the initialize response is answered, with 500, and the session of
\* the exited task does not stay in the store.
C37_AbandonedInitializeAnswered ==
    /\ \A h \in Handlers : InitializeAbandoned(h) ~> (pc[h] = "done")
    /\ \A s \in SessionIds : (task[s] = "exited") ~> (s \notin sessions)
    /\ [](\A h \in Handlers :
            (InitPost(h) /\ pc[h] = "done" /\ eff[h].spawned = 1
               /\ \E s \in sid[h] : init[s] # "answered") => resp[h].status = 500)

\* An initialize POST has been answered 500 because the task of its session
\* exited without a response, and the session is out of the store.
C37_Witness ==
    \E h \in Handlers :
        /\ InitPost(h)
        /\ pc[h] = "done"
        /\ resp[h].status = 500
        /\ eff[h].spawned = 1
        /\ \E s \in sid[h] : init[s] = "requested" /\ task[s] = "done"
                              /\ s \notin sessions

\* The DELETE answered by h named session s after the task of s had closed it.
DeleteAfterTaskClose(h, s) ==
    /\ req[h].method = "DELETE"
    /\ req[h].sid = {s}
    /\ pc[h] = "done"
    /\ ~eff[h].known
    /\ task[s] = "done"

\* C38: when a DELETE for s and the exit of the task of s both happen,
\* close_session(s) runs twice; whichever call comes second finds no entry and
\* does no harm: a DELETE that comes second is answered 204, a task that comes
\* second ends as usual, no other session is removed by either call, and s is
\* out of the store afterwards.
C38_SecondCloseIsHarmless ==
    /\ [](\A h \in Handlers : \A s \in SessionIds :
            DeleteAfterTaskClose(h, s) =>
               /\ resp[h].status = 204
               /\ eff[h].removed = {}
               /\ s \notin sessions)
    /\ [][\A s \in SessionIds :
            (task[s] = "exited" /\ task'[s] # "exited") =>
               /\ task'[s] = "done"
               /\ sessions' = sessions \ {s}
               /\ \A h \in Handlers : pc'[h] = pc[h] /\ resp'[h] = resp[h]]_vars
    /\ [][\A h \in Handlers :
            (pc[h] = "idle" /\ req'[h].method = "DELETE") =>
               sessions' = sessions \ req'[h].sid]_vars

\* A DELETE for a session was answered after the task of the session had
\* closed it.
C38_Witness ==
    \E h \in Handlers : \E s \in SessionIds :
        DeleteAfterTaskClose(h, s) /\ s \in known_ids

\* A DELETE removed the session and the task of the session closed it again.
C38_WitnessTaskSecond ==
    \E h \in Handlers : \E s \in SessionIds :
        /\ req[h].method = "DELETE" /\ pc[h] = "done"
        /\ eff[h].removed = {s}
        /\ task[s] = "done"

\* Handler h waits in tx.send on the full inbound channel of session a.
BlockedOn(h, a) ==
    /\ pc[h] = "sse_sending"
    /\ sid[h] = {a}
    /\ Len(legacy.inq[a]) = workload.capacity

\* The cleanup task of session b has seen the response body of b go.
CleanupDue(b) ==
    /\ task[b] = "cleanup"
    /\ \A g \in Handlers : ~(pc[g] = "streaming" /\ sid[g] = {b})

\* C39: a submission waiting on the full inbound channel of session a holds no
\* lock of txs: a new stream connection can insert its sender, the cleanup of
\* another session b can remove its entry, and a submission for b finds its
\* sender.
C39_SendHoldsNoLock ==
    \A h \in Handlers : \A a \in SessionIds :
        BlockedOn(h, a) =>
            /\ \A b \in SessionIds \ {a} : CleanupDue(b) => ENABLED SseCleanup(b)
            /\ \A g \in Handlers \ {h} :
                 CanBegin(g) => ENABLED SseConnect(g) /\ ENABLED SsePost(g)

\* A submission waits on session a while the cleanup of another session,
\* still in txs, is due.
C39_Witness ==
    \E h \in Handlers : \E a \in SessionIds :
        /\ BlockedOn(h, a)
        /\ \E b \in SessionIds \ {a} : CleanupDue(b) /\ b \in txs

\* A submission waits on session a while another connection can begin a
\* stream connection or a submission.
C39_WitnessConnect ==
    \E h \in Handlers : \E a \in SessionIds :
        /\ BlockedOn(h, a)
        /\ \E g \in Handlers \ {h} : CanBegin(g)

\* C40: the credential is put into Request messages only: a notification,
\* response or error posted to an existing session is handed to
\* accept_message as it was deserialized, with no AuthorizationHeader added,
\* whatever Authorization header the POST carries.
C40_CredentialOnlyIntoRequests ==
    [][\A h \in Handlers :
         (pc[h] = "post_checked" /\ pc'[h] # "post_checked"
            /\ ~IsRequest(req[h].body)) =>
            /\ eff'[h].bag = {}
            /\ seen' = seen
            /\ resp'[h].status = 202 =>
                 \E id \in sid[h] : inbound'[id] = Append(inbound[id], req[h].body)]_vars

\* A notification, response or error that carried a bearer credential has been
\* accepted by a session.
C40_Witness ==
    \E h \in Handlers :
        /\ SessionPost(h)
        /\ ~IsRequest(req[h].body)
        /\ req[h].auth = {BearerAbc}
        /\ token_passthrough
        /\ pc[h] = "done"
        /\ resp[h].status = 202

====
